---- MODULE Spec2Model ----
(***************************************************************************)
(* A model of the cache server: the shared storage engine of               *)
(* src/src/storage.rs (entries map, expiration index, purger task,         *)
(* pub/sub registry), the commands of src/src/cmd/ that act on it, and the *)
(* subscribe loop of src/src/cmd/subscribe.rs.                             *)
(*                                                                         *)
(* Every method of Db takes the tokio Mutex for its whole body, so each    *)
(* method is one atomic action.  Time is the variable now, advanced by     *)
(* Tick; Instant::now() reads it.                                          *)
(***************************************************************************)
EXTENDS Integers, Sequences, FiniteSets, TLC

(***************************************************************************)
(* Bounds of the model.                                                    *)
(***************************************************************************)
\* The clock runs from 0 to MaxTime.
MaxTime == 1
\* At most MaxPub values are stored by the broadcast senders in one run.
MaxPub == 2
\* The live connections have been sent, or are owed as the confirmation of a
\* subscription they asked for, at most MaxOut frames in all.
MaxOut == 3
\* The capacity of a broadcast channel (1024 in storage.rs, scaled down so
\* that a receiver can fall behind within MaxPub publishes).
CHANNEL_SIZE == 1
\* The permits of limit_connections (256 in server.rs, scaled down so that
\* the connections of the model can use them up).
MAX_CONNECTIONS == 2
\* The handlers read at most MaxRead frames in all.
MaxRead == 2
\* Listener::accept gives up on the failure that finds backoff past this.
MaxBackoff == 64
\* Children of the arrays the codec is given.
MaxArrayLen == 2
\* The width of the integers of the EX and PX arguments (64 in set.rs: i64
\* and u64, scaled down) and the milliseconds of a second (1000, scaled down
\* and at least 3, so that the largest number of milliseconds is fewer
\* seconds than the largest second an Instant holds, as in the code).
IntBits == 4
MillisPerSec == 4

Keys == {"k1", "k2"}
\* Connections that subscribe; channel names that differ only in case.
Conns == {"c1", "c2"}
Channels == {"news", "News"}

(***************************************************************************)
(* Entity values (src/src/storage/entity.rs, enum Entity).                 *)
(***************************************************************************)
Simple(s) == [tag |-> "Simple", text |-> s]
Bulk(b) == [tag |-> "Bulk", data |-> b]
Error(s) == [tag |-> "Error", text |-> s]
Integer(n) == [tag |-> "Integer", int |-> n]
Null == [tag |-> "Null"]
Array(vec) == [tag |-> "Array", vec |-> vec]

Values == {Bulk("v1"), Bulk("v2")}

\* Option<T>: None is the empty sequence, Some(x) the one-element sequence.
None == <<>>
Some(x) == <<x>>

\* Entity derives Ord; the keys of the model are ordered by their text.
KeyRank(k) == IF k = "k1" THEN 1 ELSE 2

\* The expire argument of Db::set: none, already expired, one time unit.
Durations == {None, Some(0), Some(1)}

VARIABLES
    now,             \* the value Instant::now() returns
    entities,        \* State.entities: a function from the keys present to Entry
    expirations,     \* State.expirations: a set of <<when, key>>
    shutdown,        \* State.shutdown
    background_task, \* Shared.background_task: TRUE when the Notify holds a permit
    purger,          \* the purger task: [pc, when]
    reply,           \* the last response frame a handler wrote
    lastWrite,       \* history: per key, the last SET or DEL applied to it
    pub_sub,         \* State.pub_sub: the channels that have a broadcast sender
    chanLog,         \* per channel, the values its sender has stored, in order
    rx_cnt,          \* per channel, the sender's count of live receivers
    mode,            \* per connection: "command" (Handler::run) or "subscribe"
    channels,        \* per connection, Subscribe.channels: still to subscribe
    rx,              \* per connection, the receiver db.subscribe just returned
    subscriptions,   \* per connection, the StreamMap: a sequence of [chan, next]
    out,             \* per connection, the frames written in subscribe mode
    requested,       \* history: per connection, every channel it asked for
    joined,          \* history: per connection and channel, the sender's
                     \* position when the channel was first registered
    lagged,          \* history: per connection, the channels it lagged on
    seen,            \* history: per connection and channel, the positions of
                     \* the values delivered since joined
    serverPc,        \* server::run: "select", "drain", "panicked"
    notified,        \* TRUE once notify_shutdown has been dropped
    listener,        \* Listener::run: [pc, backoff, slept]
    permits,         \* the permits left in limit_connections
    handler,         \* per connection, Handler::run: [pc, req, is_shutdown, result]
    sent,            \* per connection, the last frame written in the command
                     \* loop: [frame, late]
    reads,           \* the frames the handlers have read, in all
    input,           \* codec: the bytes the peer sends, [bytes, bad]
    buffer,          \* codec: the bytes read so far
    checked,         \* codec: the outcome of Entity::check on buffer
    parsed,          \* codec: the outcome of Entity::parse on buffer
    callers,         \* the callers of Db::set and Db::shutdown_purge_task that
                     \* have released the lock and have notify_one still to
                     \* call: [set, shutdown]
    lastSet          \* the last SET with EX or PX: [unit, n, panic, lifetime]

dbVars == <<now, entities, expirations, shutdown, background_task, purger,
            lastWrite>>

psVars == <<pub_sub, chanLog, rx_cnt, mode, channels, rx, subscriptions, out,
            requested, joined, lagged, seen>>

srvVars == <<serverPc, notified, listener, permits, handler, sent, reads>>

codecVars == <<input, buffer, checked, parsed>>

\* The variables of the server fabric, of the codec and of the callers.
auxVars == <<callers, lastSet>>

restVars == <<srvVars, codecVars, auxVars>>

vars == <<dbVars, reply, psVars, restVars>>

Entry(data, expires_at) == [data |-> data, expires_at |-> expires_at]

NoWrite == [op |-> "none", val |-> Null, expires_at |-> None]

NoReply == [cmd |-> "none", key |-> "k1", val |-> Null]

(***************************************************************************)
(* State::next_expiration and the front of the BTreeSet.                   *)
(***************************************************************************)
PairLeq(p, q) == \/ p[1] < q[1]
                 \/ p[1] = q[1] /\ KeyRank(p[2]) <= KeyRank(q[2])

Front(exps) == CHOOSE p \in exps : \A q \in exps : PairLeq(p, q)

next_expiration == IF expirations = {} THEN None ELSE Some(Front(expirations)[1])

(***************************************************************************)
(* Db::get                                                                 *)
(***************************************************************************)
DbGet(key) == IF key \in DOMAIN entities THEN Some(entities[key].data) ELSE None

\* Get::apply: the value, or Null when the key is missing.
Get(key) ==
    /\ reply' = [cmd |-> "get", key |-> key,
                 val |-> IF DbGet(key) # None THEN DbGet(key)[1] ELSE Null]
    /\ UNCHANGED <<dbVars, psVars, restVars>>

(***************************************************************************)
(* Db::del: removes the entry; the expiration index is not touched.        *)
(***************************************************************************)
\* A del that looks the entry up and leaves it in the map.
DbDelGetOnly(ents, key) == ents

HashMapRemove(ents, key) == [k \in DOMAIN ents \ {key} |-> ents[k]]

DbDel(ents, key) == HashMapRemove(ents, key)

\* Del::apply
Del(key) ==
    /\ entities' = DbDel(entities, key)
    /\ reply' = [cmd |-> "del", key |-> key, val |-> Simple("OK")]
    /\ lastWrite' = [lastWrite EXCEPT ![key] =
                        [op |-> "del", val |-> Null, expires_at |-> None]]
    /\ UNCHANGED <<now, expirations, shutdown, background_task, purger, psVars, restVars>>

(***************************************************************************)
(* Db::set                                                                 *)
(***************************************************************************)
\* expires_at = expire.map(|duration| Instant::now() + duration)
ExpiresAt(expire) == IF expire = None THEN None ELSE Some(now + expire[1])

\* A decision that notifies only when the index is empty.
SetNotifyOnEmpty(expire) == expire # None /\ next_expiration = None

\* notify: set inside the closure, before the maps are modified
SetNotify(expire) ==
    /\ expire # None
    /\ \/ next_expiration = None
       \/ next_expiration[1] > ExpiresAt(expire)[1]

\* state.entities.insert(key, Entry { data, expires_at })
SetEntities(key, value, expires_at) ==
    [k \in DOMAIN entities \cup {key} |->
        IF k = key THEN Entry(value, expires_at) ELSE entities[k]]

\* the pair of the previous entry is removed, then the new pair is inserted
SetExpirations(key, expires_at) ==
    LET prev == IF key \in DOMAIN entities THEN Some(entities[key]) ELSE None
        removed == IF prev # None /\ prev[1].expires_at # None
                   THEN expirations \ {<<prev[1].expires_at[1], key>>}
                   ELSE expirations
    IN  IF expires_at # None
        THEN removed \cup {<<expires_at[1], key>>}
        ELSE removed

\* Set::apply
Set(key, value, expire) ==
    /\ entities' = SetEntities(key, value, ExpiresAt(expire))
    /\ expirations' = SetExpirations(key, ExpiresAt(expire))
    /\ background_task' = (background_task \/ SetNotify(expire))
    /\ reply' = [cmd |-> "set", key |-> key, val |-> Simple("OK")]
    /\ lastWrite' = [lastWrite EXCEPT ![key] =
                        [op |-> "set", val |-> value,
                         expires_at |-> ExpiresAt(expire)]]
    /\ UNCHANGED <<now, shutdown, purger, psVars, restVars>>

(***************************************************************************)
(* The purger task: purge_expired_tasks and Shared::purge_expired_keys.    *)
(***************************************************************************)
\* The while-let loop of purge_expired_keys over the front of the index.
RECURSIVE PurgeLoop(_, _)
PurgeLoop(ents, exps) ==
    IF exps = {}
    THEN [entities |-> ents, expirations |-> exps, when |-> None]
    ELSE LET front == Front(exps) IN
         IF front[1] > now
         THEN [entities |-> ents, expirations |-> exps, when |-> Some(front[1])]
         ELSE PurgeLoop(HashMapRemove(ents, front[2]), exps \ {front})

\* while !shared.is_shutdown().await
PurgerCheck ==
    /\ purger.pc = "check"
    /\ purger' = [pc |-> IF shutdown THEN "done" ELSE "purge", when |-> None]
    /\ UNCHANGED <<now, entities, expirations, shutdown, background_task,
                   reply, lastWrite, psVars, restVars>>

\* A pass that does not look at the shutdown flag.
PurgeUnflagged == PurgeLoop(entities, expirations)

\* Shared::purge_expired_keys: None at once when the flag is set.
purge_expired_keys ==
    IF shutdown
    THEN [entities |-> entities, expirations |-> expirations, when |-> None]
    ELSE PurgeLoop(entities, expirations)

\* shared.purge_expired_keys().await
PurgerPurge ==
    /\ purger.pc = "purge"
    /\ LET r == purge_expired_keys
       IN  /\ entities' = r.entities
           /\ expirations' = r.expirations
           /\ purger' = [pc |-> "wait", when |-> r.when]
    /\ UNCHANGED <<now, shutdown, background_task, reply, lastWrite, psVars, restVars>>

\* background_task.notified() completes: the permit is consumed
PurgerNotified ==
    /\ purger.pc = "wait"
    /\ background_task
    /\ background_task' = FALSE
    /\ purger' = [pc |-> "check", when |-> None]
    /\ UNCHANGED <<now, entities, expirations, shutdown, reply, lastWrite,
                   psVars, restVars>>

\* tokio::time::sleep_until(when) completes
PurgerTimeout ==
    /\ purger.pc = "wait"
    /\ purger.when # None
    /\ now >= purger.when[1]
    /\ purger' = [pc |-> "check", when |-> None]
    /\ UNCHANGED <<now, entities, expirations, shutdown, background_task,
                   reply, lastWrite, psVars, restVars>>

\* Time passes.
Tick ==
    /\ now < MaxTime
    /\ now' = now + 1
    /\ UNCHANGED <<entities, expirations, shutdown, background_task, purger,
                   reply, lastWrite, psVars, restVars>>

(***************************************************************************)
(* The methods of Db step by step: Db::set and Db::shutdown_purge_task     *)
(* release the lock before they call notify_one, so the purger and other   *)
(* callers can run in between.                                             *)
(***************************************************************************)
\* A notify_one that wakes only a task already waiting and stores no permit.
NotifyOneNoPermit(permit) == permit

\* Notify::notify_one: with no task waiting the permit is stored; a second
\* permit is not.
NotifyOne(permit) == TRUE

\* Db::set up to drop(state).
DbSetLocked(key, value, expire) ==
    /\ callers.set < Cardinality(Conns)
    /\ entities' = SetEntities(key, value, ExpiresAt(expire))
    /\ expirations' = SetExpirations(key, ExpiresAt(expire))
    /\ callers' = [callers EXCEPT !.set = IF SetNotify(expire) THEN @ + 1 ELSE @]
    /\ UNCHANGED <<now, shutdown, background_task, purger, reply, lastWrite,
                   psVars, srvVars, codecVars, lastSet>>

\* Db::set: if notify { notify_one() }.
DbSetNotifyOne ==
    /\ callers.set > 0
    /\ callers' = [callers EXCEPT !.set = @ - 1]
    /\ background_task' = NotifyOne(background_task)
    /\ UNCHANGED <<now, entities, expirations, shutdown, purger, reply,
                   lastWrite, psVars, srvVars, codecVars, lastSet>>

\* Db::del.
DbDelLocked(key) ==
    /\ key \in DOMAIN entities
    /\ entities' = DbDel(entities, key)
    /\ UNCHANGED <<now, expirations, shutdown, background_task, purger, reply,
                   lastWrite, psVars, restVars>>

\* Db::shutdown_purge_task up to drop(state).
ShutdownPurgeTaskLocked ==
    /\ ~shutdown
    /\ shutdown' = TRUE
    /\ callers' = [callers EXCEPT !.shutdown = TRUE]
    /\ UNCHANGED <<now, entities, expirations, background_task, purger, reply,
                   lastWrite, psVars, srvVars, codecVars, lastSet>>

\* Db::shutdown_purge_task: notify_one().
ShutdownPurgeTaskNotifyOne ==
    /\ callers.shutdown
    /\ callers' = [callers EXCEPT !.shutdown = FALSE]
    /\ background_task' = NotifyOne(background_task)
    /\ UNCHANGED <<now, entities, expirations, shutdown, purger, reply,
                   lastWrite, psVars, srvVars, codecVars, lastSet>>

(***************************************************************************)
(* Pub/sub: Db::subscribe, Db::publish and the tokio broadcast channel.    *)
(*                                                                         *)
(* A sender stores a value only while it has a receiver; a receiver is a   *)
(* position next in the sender's sequence of stored values, and the        *)
(* sender retains the last CHANNEL_SIZE of them.                           *)
(***************************************************************************)
Receiver(ch, next) == [chan |-> ch, next |-> next]

\* self.channels of a SUBSCRIBE request: at least one channel.
SubscribeArgs == {<<"news">>, <<"News">>, <<"news", "News">>}

\* self.channels of an UNSUBSCRIBE request: the empty list means every channel.
UnsubscribeArgs == {<<>>, <<"news">>, <<"News">>, <<"news", "News">>}

TotalStored == Len(chanLog["news"]) + Len(chanLog["News"])

\* The confirmations connection c is owed: one per channel it asked for and
\* has not been subscribed to yet.
Owed(c) == Len(channels[c]) + Len(rx[c])

\* The frames written to the live connections, and those owed to them.
TotalOut == Len(out["c1"]) + Len(out["c2"]) + Owed("c1") + Owed("c2")

\* str::to_lowercase
Lower(name) == IF name = "News" THEN "news" ELSE name

\* A publish that folds the case of the channel name before the lookup.
DbPublishIgnoreCase(key) ==
    IF Lower(key) \in pub_sub THEN rx_cnt[Lower(key)] ELSE 0

\* Db::publish: tx.send(value) answers the number of receivers, and is an
\* error (answered as 0) when there is none.
DbPublish(key) ==
    IF key \in pub_sub
    THEN (IF rx_cnt[key] = 0 THEN 0 ELSE rx_cnt[key])
    ELSE 0

\* The publishers number their messages: the value published to a channel is
\* its position among the values the channel's sender has stored.
NextValue(key) == Integer(Len(chanLog[key]) + 1)

\* Publish::apply, by any connection in the command loop.
Publish(key, value) ==
    /\ IF key \in pub_sub /\ rx_cnt[key] > 0
       THEN /\ TotalStored < MaxPub
            /\ chanLog' = [chanLog EXCEPT ![key] = Append(@, value)]
       ELSE UNCHANGED chanLog
    /\ reply' = [cmd |-> "publish", key |-> key, val |-> Integer(DbPublish(key))]
    /\ UNCHANGED <<restVars, dbVars, pub_sub, rx_cnt, mode, channels, rx, subscriptions,
                   out, requested, joined, lagged, seen>>

(***************************************************************************)
(* The StreamMap of a subscribing connection (a Vec of entries).           *)
(***************************************************************************)
HasKey(entries, ch) == \E i \in 1..Len(entries) : entries[i].chan = ch

IndexOf(entries, ch) == CHOOSE i \in 1..Len(entries) : entries[i].chan = ch

\* Vec::swap_remove: the last entry takes the place of the removed one.
SwapRemove(entries, i) ==
    LET n == Len(entries) IN
    [j \in 1..(n - 1) |-> IF j = i THEN entries[n] ELSE entries[j]]

\* A remove that leaves the entry in the map.
StreamMapRemoveNothing(entries, ch) == entries

\* StreamMap::remove
StreamMapRemove(entries, ch) ==
    IF HasKey(entries, ch) THEN SwapRemove(entries, IndexOf(entries, ch))
    ELSE entries

\* An insert that pushes without removing the entry of the same key.
StreamMapPush(entries, r) == Append(entries, r)

\* StreamMap::insert: the entry of the same key is removed, the new one pushed.
StreamMapInsert(entries, r) == Append(StreamMapRemove(entries, r.chan), r)

\* The receivers a connection holds on channel ch.
Held(c, ch) ==
    Cardinality({i \in 1..Len(subscriptions[c]) : subscriptions[c][i].chan = ch})
    + (IF rx[c] # None /\ rx[c][1].chan = ch THEN 1 ELSE 0)

(***************************************************************************)
(* The frames of src/src/cmd/subscribe.rs.                                 *)
(***************************************************************************)
make_subscribe_frame(channel_name, num_subs) ==
    Array(<<Bulk("subscribe"), Bulk(channel_name), Integer(num_subs)>>)

make_unsubscribe_frame(channel_name, num_subs) ==
    Array(<<Bulk("unsubscribe"), Bulk(channel_name), Integer(num_subs)>>)

make_message_frame(channel_name, frame) ==
    Array(<<Bulk("message"), Bulk(channel_name), frame>>)

\* Unknown::apply: the error frame; the text is the format string's pieces.
UnknownFrameNoName(command_name) == Error(<<"ERR unknown command">>)

UnknownFrame(command_name) ==
    Error(<<"ERR unknown command '", command_name, "'">>)

(***************************************************************************)
(* Subscribe::apply                                                        *)
(***************************************************************************)
\* Handler::run reads a SUBSCRIBE request: Subscribe::apply starts.
SubscribeCmd(c, chans) ==
    /\ mode[c] = "command"
    /\ TotalOut + Len(chans) <= MaxOut
    /\ mode' = [mode EXCEPT ![c] = "subscribe"]
    /\ channels' = [channels EXCEPT ![c] = chans]
    /\ requested' = [requested EXCEPT ![c] = chans]
    /\ UNCHANGED <<restVars, dbVars, reply, pub_sub, chanLog, rx_cnt, rx, subscriptions,
                   out, joined, lagged, seen>>

\* A subscribe whose receiver starts at the oldest value the sender retains.
DbSubscribeReplay(key) ==
    [pub_sub |-> pub_sub \cup {key},
     rx |-> Receiver(key, IF Len(chanLog[key]) > CHANNEL_SIZE
                          THEN Len(chanLog[key]) - CHANNEL_SIZE ELSE 0)]

\* Db::subscribe: an Occupied entry keeps its sender and subscribes to it, a
\* Vacant entry gets a new sender.  Either way the receiver starts at the
\* sender's current position.
DbSubscribe(key) ==
    [pub_sub |-> pub_sub \cup {key},
     rx |-> Receiver(key, Len(chanLog[key]))]

\* subscribe_to_channel, first half: db.subscribe(channel_name) under the lock.
SubscribeToChannelDb(c) ==
    /\ mode[c] = "subscribe"
    /\ rx[c] = None
    /\ channels[c] # <<>>
    /\ LET ch == Head(channels[c]) IN
       /\ pub_sub' = DbSubscribe(ch).pub_sub
       /\ rx_cnt' = [rx_cnt EXCEPT ![ch] = @ + 1]
       /\ rx' = [rx EXCEPT ![c] = Some(DbSubscribe(ch).rx)]
       /\ joined' = [joined EXCEPT ![c][ch] =
                        IF @ = None THEN Some(Len(chanLog[ch])) ELSE @]
    /\ channels' = [channels EXCEPT ![c] = Tail(@)]
    /\ UNCHANGED <<restVars, dbVars, reply, chanLog, mode, subscriptions, out, requested,
                   lagged, seen>>

\* subscribe_to_channel, second half: the stream is inserted in the StreamMap
\* (the receiver of the entry it replaces is dropped) and the confirmation
\* is written.
SubscribeToChannelInsert(c) ==
    /\ mode[c] = "subscribe"
    /\ rx[c] # None
    /\ LET r == rx[c][1]
           entries == StreamMapInsert(subscriptions[c], r)
       IN  /\ subscriptions' = [subscriptions EXCEPT ![c] = entries]
           /\ rx_cnt' = [rx_cnt EXCEPT ![r.chan] =
                            @ - (Held(c, r.chan)
                                 - Cardinality({i \in 1..Len(entries) :
                                                   entries[i].chan = r.chan}))]
           /\ out' = [out EXCEPT ![c] =
                         Append(@, make_subscribe_frame(r.chan, Len(entries)))]
    /\ rx' = [rx EXCEPT ![c] = None]
    /\ UNCHANGED <<restVars, dbVars, reply, pub_sub, chanLog, mode, channels, requested,
                   joined, lagged, seen>>

\* The select! of Subscribe::apply is reached once self.channels is drained.
AtSelect(c) == mode[c] = "subscribe" /\ rx[c] = None /\ channels[c] = <<>>

\* A receiver that has fallen behind the values its sender retains.
Lagging(r) == r.next < Len(chanLog[r.chan]) - CHANNEL_SIZE

\* A stream that ends when its receiver reports Lagged.
StreamNextBreakOnLag(r) ==
    IF Lagging(r)
    THEN [kind |-> "end", pos |-> r.next]
    ELSE [kind |-> "msg", pos |-> r.next + 1]

\* The stream of subscribe_to_channel: rx.recv() in a loop; Lagged moves the
\* receiver to the oldest retained value and the loop goes on.
StreamNext(r) ==
    IF Lagging(r)
    THEN [kind |-> "msg", pos |-> Len(chanLog[r.chan]) - CHANNEL_SIZE + 1]
    ELSE [kind |-> "msg", pos |-> r.next + 1]

\* select!: subscriptions.next() yields (channel_name, msg); the message
\* frame is written.  A stream that has ended leaves the StreamMap.
Deliver(c, i) ==
    /\ AtSelect(c)
    /\ i \in 1..Len(subscriptions[c])
    /\ subscriptions[c][i].next < Len(chanLog[subscriptions[c][i].chan])
    /\ TotalOut < MaxOut
    /\ LET r == subscriptions[c][i]
           n == StreamNext(r)
       IN  IF n.kind = "msg"
           THEN /\ subscriptions' = [subscriptions EXCEPT ![c][i].next = n.pos]
                /\ out' = [out EXCEPT ![c] =
                              Append(@, make_message_frame(r.chan,
                                                          chanLog[r.chan][n.pos]))]
                /\ lagged' = [lagged EXCEPT ![c] =
                                 IF Lagging(r) THEN @ \cup {r.chan} ELSE @]
                /\ seen' = [seen EXCEPT ![c][r.chan] = Append(@, n.pos)]
                /\ UNCHANGED rx_cnt
           ELSE /\ subscriptions' = [subscriptions EXCEPT ![c] = SwapRemove(@, i)]
                /\ rx_cnt' = [rx_cnt EXCEPT ![r.chan] = @ - 1]
                /\ UNCHANGED <<out, lagged, seen>>
    /\ UNCHANGED <<restVars, dbVars, reply, pub_sub, chanLog, mode, channels, rx,
                   requested, joined>>

\* select!: read_frame yields SUBSCRIBE: handle_command extends self.channels.
ReadSubscribe(c, chans) ==
    /\ AtSelect(c)
    /\ TotalOut + Len(chans) <= MaxOut
    /\ channels' = [channels EXCEPT ![c] = @ \o chans]
    /\ requested' = [requested EXCEPT ![c] = @ \o chans]
    /\ UNCHANGED <<restVars, dbVars, reply, pub_sub, chanLog, rx_cnt, mode, rx,
                   subscriptions, out, joined, lagged, seen>>

\* The for loop of handle_command over unsubscribe.channels.
RECURSIVE UnsubscribeLoop(_, _, _)
UnsubscribeLoop(entries, chans, frames) ==
    IF chans = <<>>
    THEN [entries |-> entries, frames |-> frames]
    ELSE LET left == StreamMapRemove(entries, Head(chans)) IN
         UnsubscribeLoop(left, Tail(chans),
                         Append(frames,
                                make_unsubscribe_frame(Head(chans), Len(left))))

\* subscriptions.keys(), in the order of the entries.
StreamMapKeys(entries) == [i \in 1..Len(entries) |-> entries[i].chan]

\* A loop that returns to Handler::run once the StreamMap is empty.
AfterCommandReturnOnEmpty(entries) ==
    IF entries = <<>> THEN "command" ELSE "subscribe"

\* Subscribe::apply after handle_command has returned Ok: the loop has no exit
\* test, it goes round again whatever is left in the StreamMap.
AfterCommand(entries) == "subscribe"

\* select!: read_frame yields UNSUBSCRIBE.
ReadUnsubscribe(c, chans) ==
    /\ AtSelect(c)
    /\ LET list == IF chans = <<>> THEN StreamMapKeys(subscriptions[c]) ELSE chans
           r == UnsubscribeLoop(subscriptions[c], list, <<>>)
           gone == {list[i] : i \in 1..Len(list)}
       IN  /\ TotalOut + Len(r.frames) <= MaxOut
           /\ subscriptions' = [subscriptions EXCEPT ![c] = r.entries]
           /\ out' = [out EXCEPT ![c] = @ \o r.frames]
           /\ rx_cnt' = [ch \in Channels |->
                            IF HasKey(subscriptions[c], ch) /\ ~HasKey(r.entries, ch)
                            THEN rx_cnt[ch] - 1 ELSE rx_cnt[ch]]
           /\ joined' = [joined EXCEPT ![c] =
                            [ch \in Channels |-> IF ch \in gone THEN None ELSE @[ch]]]
           /\ seen' = [seen EXCEPT ![c] =
                            [ch \in Channels |-> IF ch \in gone THEN <<>> ELSE @[ch]]]
           /\ lagged' = [lagged EXCEPT ![c] = @ \ gone]
           /\ mode' = [mode EXCEPT ![c] = AfterCommand(r.entries)]
    /\ UNCHANGED <<restVars, dbVars, reply, pub_sub, chanLog, channels, rx, requested>>

\* The handler returns (the peer closed, or a read or write failed): the
\* StreamMap and its receivers are dropped, the senders stay registered.
\* The slot is then a newly accepted connection in the command loop.
Disconnect(c) ==
    /\ mode[c] = "subscribe"
    /\ rx[c] = None
    /\ mode' = [mode EXCEPT ![c] = "command"]
    /\ rx_cnt' = [ch \in Channels |-> rx_cnt[ch] - Held(c, ch)]
    /\ subscriptions' = [subscriptions EXCEPT ![c] = <<>>]
    /\ channels' = [channels EXCEPT ![c] = <<>>]
    /\ out' = [out EXCEPT ![c] = <<>>]
    /\ requested' = [requested EXCEPT ![c] = <<>>]
    /\ joined' = [joined EXCEPT ![c] = [ch \in Channels |-> None]]
    /\ seen' = [seen EXCEPT ![c] = [ch \in Channels |-> <<>>]]
    /\ lagged' = [lagged EXCEPT ![c] = {}]
    /\ UNCHANGED <<restVars, dbVars, reply, pub_sub, chanLog, rx>>

(***************************************************************************)
(* Results and errors (src/src/error.rs), the Parse helper and             *)
(* Command::from_frame (src/src/parse.rs).                                 *)
(***************************************************************************)
EndOfStream == [kind |-> "EndOfStream", msg |-> ""]
Incomplete == [kind |-> "Incomplete", msg |-> ""]
Other(msg) == [kind |-> "Other", msg |-> msg]

\* Result<T, CacheError>; rest is what is left of Parse.parts.
Ok(val, rest) == [ok |-> TRUE, val |-> val, err |-> EndOfStream, rest |-> rest]
Err(err) == [ok |-> FALSE, val |-> Null, err |-> err, rest |-> <<>>]

\* str::to_uppercase, on the option names of the requests.
Upper(s) == CASE s = "ex" -> "EX"
              [] s = "px" -> "PX"
              [] s = "xx" -> "XX"
              [] OTHER -> s

\* str::to_lowercase, on the command names of the requests.
ToLowercase(s) == CASE s = "GET" -> "get"
                    [] s = "SET" -> "set"
                    [] s = "FOO" -> "foo"
                    [] s = "Foo" -> "foo"
                    [] OTHER -> s

\* The largest i64 and the i64 values.
I64Max == 2^(IntBits - 1) - 1
I64 == (-I64Max - 1)..I64Max

\* secs as u64, ms as u64: the same bits read as unsigned, so a negative n
\* becomes 2^64 + n.
AsU64(n) == n % 2^IntBits

\* Duration::from_secs and Duration::from_millis; a Duration of the model is
\* a number of milliseconds, the unit of the clock where both options occur.
DurationFromSecs(secs) == secs * MillisPerSec
DurationFromMillis(millis) == millis

\* Parse::next
ParseNext(parts) ==
    IF parts = <<>> THEN Err(EndOfStream) ELSE Ok(Head(parts), Tail(parts))

\* Parse::next_string
ParseNextString(parts) ==
    LET n == ParseNext(parts) IN
    IF ~n.ok THEN n
    ELSE IF n.val.tag = "Simple" THEN Ok(n.val.text, n.rest)
    ELSE IF n.val.tag = "Bulk" THEN Ok(n.val.data, n.rest)
    ELSE Err(Other("protocol error; expected simple frame or bulk frame"))

\* Parse::next_int
ParseNextInt(parts) ==
    LET n == ParseNext(parts) IN
    IF ~n.ok THEN n
    ELSE IF n.val.tag = "Integer" THEN Ok(n.val.int, n.rest)
    ELSE Err(Other("protocol error; expected number"))

\* Parse::finish
ParseFinish(parts) ==
    IF parts = <<>> THEN Ok(Null, <<>>)
    ELSE Err(Other("protocol error; expected end of frame, but there was more"))

\* Get::parse_frames
GetParseFrames(parts) ==
    LET key == ParseNext(parts) IN
    IF ~key.ok THEN key
    ELSE Ok([name |-> "get", key |-> key.val], key.rest)

\* Del::parse_frames
DelParseFrames(parts) ==
    LET key == ParseNext(parts) IN
    IF ~key.ok THEN key
    ELSE Ok([name |-> "del", key |-> key.val], key.rest)

\* Set::parse_frames
SetParseFrames(parts) ==
    LET key == ParseNext(parts)
        value == ParseNext(key.rest)
        opt == ParseNextString(value.rest)
        num == ParseNextInt(opt.rest)
        cmd(expire, rest) ==
            Ok([name |-> "set", key |-> key.val, value |-> value.val,
                expire |-> expire], rest)
    IN  IF ~key.ok THEN key
        ELSE IF ~value.ok THEN value
        ELSE IF opt.ok /\ Upper(opt.val) = "EX"
             THEN (IF ~num.ok THEN num
                   ELSE cmd(Some(DurationFromSecs(AsU64(num.val))), num.rest))
        ELSE IF opt.ok /\ Upper(opt.val) = "PX"
             THEN (IF ~num.ok THEN num
                   ELSE cmd(Some(DurationFromMillis(AsU64(num.val))), num.rest))
        ELSE IF opt.ok
             THEN Err(Other("currently SET only supports the expiration option"))
        ELSE IF opt.err = EndOfStream THEN cmd(None, value.rest)
        ELSE opt

\* Publish::parse_frames
PublishParseFrames(parts) ==
    LET channel == ParseNextString(parts)
        message == ParseNext(channel.rest)
    IN  IF ~channel.ok THEN channel
        ELSE IF ~message.ok THEN message
        ELSE Ok([name |-> "publish", channel |-> channel.val,
                 message |-> message.val], message.rest)

\* Ping::parse_frames
PingParseFrames(parts) ==
    LET msg == ParseNext(parts) IN
    IF msg.ok /\ msg.val.tag \in {"Simple", "Bulk"}
    THEN Ok([name |-> "ping", msg |-> Some(msg.val)], msg.rest)
    ELSE IF msg.ok
    THEN Err(Other("protocol error; expected simple frame or bulk frame"))
    ELSE IF msg.err = EndOfStream THEN Ok([name |-> "ping", msg |-> None], parts)
    ELSE msg

\* The loop of Subscribe::parse_frames and Unsubscribe::parse_frames: strings
\* are pushed until the parts end.
RECURSIVE NextStrings(_, _)
NextStrings(parts, acc) ==
    LET s == ParseNextString(parts) IN
    IF s.ok THEN NextStrings(s.rest, Append(acc, s.val))
    ELSE IF s.err = EndOfStream THEN Ok(acc, <<>>)
    ELSE s

\* Subscribe::parse_frames: one channel at least.
SubscribeParseFrames(parts) ==
    LET first == ParseNextString(parts)
        more == NextStrings(first.rest, <<first.val>>)
    IN  IF ~first.ok THEN first
        ELSE IF ~more.ok THEN more
        ELSE Ok([name |-> "subscribe", channels |-> more.val], more.rest)

\* Unsubscribe::parse_frames
UnsubscribeParseFrames(parts) ==
    LET all == NextStrings(parts, <<>>) IN
    IF ~all.ok THEN all
    ELSE Ok([name |-> "unsubscribe", channels |-> all.val], all.rest)

\* Command::from_frame: Parse::new wants an array; the name is lowercased;
\* an unknown name returns before parse.finish.
FromFrame(frame) ==
    IF frame.tag # "Array"
    THEN Err(Other("protocol error; expected array"))
    ELSE LET name == ParseNextString(frame.vec)
             command_name == ToLowercase(name.val)
             command ==
                 CASE command_name = "get" -> GetParseFrames(name.rest)
                   [] command_name = "set" -> SetParseFrames(name.rest)
                   [] command_name = "del" -> DelParseFrames(name.rest)
                   [] command_name = "publish" -> PublishParseFrames(name.rest)
                   [] command_name = "ping" -> PingParseFrames(name.rest)
                   [] command_name = "subscribe" -> SubscribeParseFrames(name.rest)
                   [] command_name = "unsubscribe" ->
                          UnsubscribeParseFrames(name.rest)
                   [] OTHER -> Ok([name |-> "unknown",
                                   command_name |-> command_name], <<>>)
         IN  IF ~name.ok THEN name
             ELSE IF ~command.ok THEN command
             ELSE IF ~ParseFinish(command.rest).ok THEN ParseFinish(command.rest)
             ELSE command

(***************************************************************************)
(* The listener, the handlers and the shutdown fabric (src/src/server.rs). *)
(* The Shutdown wrapper (is_shutdown, recv) is modelled from the           *)
(* specification: recv completes once notify_shutdown has been dropped and *)
(* sets is_shutdown.                                                       *)
(***************************************************************************)
\* The frames a peer sends: valid requests, requests with a command-level
\* error, a request with an unknown name, a SUBSCRIBE.
ValidRequests ==
    {Array(<<Bulk("SET"), Bulk("k1"), Bulk("v1")>>),
     Array(<<Bulk("get"), Bulk("k1")>>)}

ErrorRequests ==
    {Array(<<Bulk("set"), Bulk("k1"), Bulk("v2"), Bulk("xx")>>),
     Array(<<Bulk("set"), Bulk("k1"), Bulk("v2"), Bulk("ex"), Bulk("v1")>>),
     Array(<<Bulk("get")>>),
     Array(<<Bulk("get"), Bulk("k1"), Bulk("k2")>>),
     Array(<<Bulk("unsubscribe")>>)}

UnknownRequests == {Array(<<Bulk("FOO"), Bulk("k1")>>)}

SubscribeRequests == {Array(<<Bulk("subscribe"), Bulk("news")>>)}

Requests ==
    ValidRequests \cup ErrorRequests \cup UnknownRequests \cup SubscribeRequests

NoHandler == [pc |-> "none", req |-> Null, is_shutdown |-> FALSE,
              result |-> "none"]

\* The handlers whose task is running.
Live == {c \in Conns : handler[c].pc \notin {"none", "ended"}}

\* The listener holds the permit it acquired until it hands it to a task.
ListenerHolds == IF listener.pc \in {"accept", "sleep"} THEN 1 ELSE 0

\* Listener::run: acquire_owned, then accept starts with backoff = 1.
ListenerAcquire ==
    /\ serverPc = "select"
    /\ listener.pc = "acquire"
    /\ permits > 0
    /\ permits' = permits - 1
    /\ listener' = [pc |-> "accept", backoff |-> 1, slept |-> <<>>]
    /\ UNCHANGED <<dbVars, reply, psVars, codecVars, auxVars, serverPc, notified,
                   handler, sent, reads>>

\* Listener::accept: Ok(socket); Listener::run spawns the handler task, which
\* owns the permit, and loops.
ListenerAcceptOk(c) ==
    /\ serverPc = "select"
    /\ listener.pc = "accept"
    /\ handler[c].pc = "none"
    /\ c = "c1" \/ handler["c1"].pc # "none"
    /\ handler' = [handler EXCEPT ![c].pc = "select"]
    /\ listener' = [listener EXCEPT !.pc = "acquire"]
    /\ UNCHANGED <<dbVars, reply, psVars, codecVars, auxVars, serverPc, notified,
                   permits, sent, reads>>

\* A test that gives up on the failure that follows the 32-second sleep.
AcceptGivesUpAtLimit(backoff) == backoff >= MaxBackoff

\* The test of Listener::accept on a failure.
AcceptGivesUp(backoff) == backoff > MaxBackoff

\* Listener::accept: Err(err): the error is returned when backoff is past 64
\* (the permit of Listener::run is dropped with its frame), else accept
\* sleeps.
ListenerAcceptErr ==
    /\ serverPc = "select"
    /\ listener.pc = "accept"
    /\ IF AcceptGivesUp(listener.backoff)
       THEN /\ listener' = [listener EXCEPT !.pc = "failed"]
            /\ permits' = permits + 1
       ELSE /\ listener' = [listener EXCEPT !.pc = "sleep"]
            /\ UNCHANGED permits
    /\ UNCHANGED <<dbVars, reply, psVars, codecVars, auxVars, serverPc, notified,
                   handler, sent, reads>>

\* time::sleep(Duration::from_secs(backoff)) completes; backoff *= 2.
ListenerSleep ==
    /\ serverPc = "select"
    /\ listener.pc = "sleep"
    /\ listener' = [pc |-> "accept", backoff |-> listener.backoff * 2,
                    slept |-> Append(listener.slept, listener.backoff)]
    /\ UNCHANGED <<dbVars, reply, psVars, codecVars, auxVars, serverPc, notified,
                   permits, handler, sent, reads>>

\* server::run: the select! ends, because the shutdown future completed (the
\* future of Listener::run is dropped, with the permit it holds) or because
\* Listener::run returned its error; notify_shutdown and the listener's
\* completion sender are dropped, and run awaits shutdown_complete_rx.recv().
ServerShutdown ==
    /\ serverPc = "select"
    /\ serverPc' = "drain"
    /\ notified' = TRUE
    /\ listener' = [listener EXCEPT !.pc =
                       IF @ = "failed" THEN "failed" ELSE "dropped"]
    /\ permits' = permits + ListenerHolds
    /\ UNCHANGED <<dbVars, reply, psVars, codecVars, auxVars, handler, sent, reads>>

\* DbDropGuard::drop builds a runtime and calls block_on on the thread that
\* is driving server::run: tokio panics ("Cannot start a runtime from within
\* a runtime") before shutdown_purge_task is polled.
DbDropGuardDrop == "panicked"

\* recv() answers None when every sender has been dropped: the handlers'
\* tasks have ended.
AllSendersDropped == Live = {}

\* server::run: recv() completes; the rest of the Listener (db_holder
\* included) is dropped at the end of run.
ServerDrained ==
    /\ serverPc = "drain"
    /\ AllSendersDropped
    /\ serverPc' = DbDropGuardDrop
    /\ UNCHANGED <<dbVars, reply, psVars, codecVars, auxVars, notified, listener,
                   permits, handler, sent, reads>>

\* A task that keeps its permit when the handler returned an error.
TaskEndPermitsOnOk(n, result) == IF result = "Ok" THEN n + 1 ELSE n

\* The spawned task: the error of handler.run() is logged, then drop(permit),
\* whatever the result.
TaskEndPermits(n, result) == n + 1

\* The handler record of a task that has ended; observed: shutdown.recv()
\* completed in it.
Ended(h, result, observed) ==
    [pc |-> "ended", req |-> Null, is_shutdown |-> (h.is_shutdown \/ observed),
     result |-> result]

\* A return that drops the streams of every connection.
DropStreamsOfAll(c) ==
    /\ mode' = [mode EXCEPT ![c] = "command"]
    /\ rx_cnt' = [ch \in Channels |-> 0]
    /\ subscriptions' = [d \in Conns |-> <<>>]
    /\ channels' = [channels EXCEPT ![c] = <<>>]
    /\ out' = [out EXCEPT ![c] = <<>>]
    /\ requested' = [requested EXCEPT ![c] = <<>>]
    /\ joined' = [joined EXCEPT ![c] = [ch \in Channels |-> None]]
    /\ seen' = [seen EXCEPT ![c] = [ch \in Channels |-> <<>>]]
    /\ lagged' = [lagged EXCEPT ![c] = {}]
    /\ UNCHANGED <<pub_sub, chanLog, rx>>

\* The StreamMap of connection c and its receivers are dropped.
DropStreams(c) ==
    /\ mode' = [mode EXCEPT ![c] = "command"]
    /\ rx_cnt' = [ch \in Channels |-> rx_cnt[ch] - Held(c, ch)]
    /\ subscriptions' = [subscriptions EXCEPT ![c] = <<>>]
    /\ channels' = [channels EXCEPT ![c] = <<>>]
    /\ out' = [out EXCEPT ![c] = <<>>]
    /\ requested' = [requested EXCEPT ![c] = <<>>]
    /\ joined' = [joined EXCEPT ![c] = [ch \in Channels |-> None]]
    /\ seen' = [seen EXCEPT ![c] = [ch \in Channels |-> <<>>]]
    /\ lagged' = [lagged EXCEPT ![c] = {}]
    /\ UNCHANGED <<pub_sub, chanLog, rx>>

\* The handler waits in a select!: that of Handler::run, or that of
\* Subscribe::apply once every requested channel is subscribed.
HandlerAtSelect(c) ==
    \/ handler[c].pc = "select"
    \/ handler[c].pc = "subscribe" /\ AtSelect(c)

\* The task of connection c ends with result.
HandlerEnd(c, result, observed) ==
    /\ handler' = [handler EXCEPT ![c] = Ended(@, result, observed)]
    /\ permits' = TaskEndPermits(permits, result)
    /\ IF handler[c].pc = "subscribe" THEN DropStreams(c) ELSE UNCHANGED psVars

\* Handler::run, select!: read_frame yields a frame.
HandlerRead(c, frame) ==
    /\ handler[c].pc = "select"
    /\ reads < MaxRead
    /\ reads' = reads + 1
    /\ handler' = [handler EXCEPT ![c].pc = "apply", ![c].req = frame]
    /\ UNCHANGED <<dbVars, reply, psVars, codecVars, auxVars, serverPc, notified,
                   listener, permits, sent>>

\* select!: read_frame yields None (the peer closed): Ok(()).
HandlerReadEof(c) ==
    /\ HandlerAtSelect(c)
    /\ HandlerEnd(c, "Ok", FALSE)
    /\ UNCHANGED <<dbVars, reply, codecVars, auxVars, serverPc, notified, listener,
                   sent, reads>>

\* select!: read_frame yields an error (broken framing, I/O): res? returns it.
HandlerReadErr(c) ==
    /\ HandlerAtSelect(c)
    /\ HandlerEnd(c, "Err", FALSE)
    /\ UNCHANGED <<dbVars, reply, codecVars, auxVars, serverPc, notified, listener,
                   sent, reads>>

\* Shutdown::recv completes once the broadcast sender has been dropped.
ShutdownRecvReady == notified

\* select!: shutdown.recv() completes: Handler::run returns Ok(());
\* Subscribe::apply returns Ok(()) and the while test of Handler::run fails.
HandlerShutdown(c) ==
    /\ HandlerAtSelect(c)
    /\ ShutdownRecvReady
    /\ HandlerEnd(c, "Ok", TRUE)
    /\ UNCHANGED <<dbVars, reply, codecVars, auxVars, serverPc, notified, listener,
                   sent, reads>>

\* The key of the entries map that a key frame of the requests names.
KeyOf(e) == e.data

\* The frame Command::apply writes for a command other than SUBSCRIBE and
\* UNSUBSCRIBE.
ApplyResponse(cmd) ==
    CASE cmd.name = "get" ->
             (IF DbGet(KeyOf(cmd.key)) # None THEN DbGet(KeyOf(cmd.key))[1]
              ELSE Null)
      [] cmd.name \in {"set", "del"} -> Simple("OK")
      [] cmd.name = "publish" -> Integer(DbPublish(cmd.channel))
      [] cmd.name = "ping" ->
             (IF cmd.msg = None THEN Simple("PONG")
              ELSE IF cmd.msg[1].tag = "Bulk" THEN cmd.msg[1]
              ELSE Bulk(cmd.msg[1].text))
      [] cmd.name = "unknown" -> UnknownFrame(cmd.command_name)

\* What Command::apply does to the entries map, the expiration index, the
\* purger's Notify and the values of the broadcast senders.
ApplyEntities(cmd) ==
    CASE cmd.name = "set" ->
             SetEntities(KeyOf(cmd.key), cmd.value, ExpiresAt(cmd.expire))
      [] cmd.name = "del" -> DbDel(entities, KeyOf(cmd.key))
      [] OTHER -> entities

ApplyExpirations(cmd) ==
    IF cmd.name = "set"
    THEN SetExpirations(KeyOf(cmd.key), ExpiresAt(cmd.expire))
    ELSE expirations

ApplyNotify(cmd) ==
    IF cmd.name = "set" THEN background_task \/ SetNotify(cmd.expire)
    ELSE background_task

ApplyChanLog(cmd) ==
    IF cmd.name = "publish" /\ DbPublish(cmd.channel) > 0
    THEN [chanLog EXCEPT ![cmd.channel] = Append(@, cmd.message)]
    ELSE chanLog

\* dst.write_frame(frame); late: the shutdown had been signalled by then.
Written(frame) == [frame |-> frame, late |-> notified]

\* Handler::run: Command::from_frame(entity)? returns the error of a request
\* that does not decode, and cmd.apply(..).await? that of an UNSUBSCRIBE.
DecodeFailureEnds(r) == ~r.ok \/ r.val.name = "unsubscribe"

\* Handler::run after read_frame: Command::from_frame, then Command::apply.
HandlerApply(c) ==
    /\ handler[c].pc = "apply"
    /\ LET r == FromFrame(handler[c].req) IN
       IF DecodeFailureEnds(r)
       THEN /\ HandlerEnd(c, "Err", FALSE)
            /\ UNCHANGED <<dbVars, sent>>
       ELSE IF r.val.name = "subscribe"
       THEN /\ handler' = [handler EXCEPT ![c].pc = "subscribe", ![c].req = Null]
            /\ mode' = [mode EXCEPT ![c] = "subscribe"]
            /\ channels' = [channels EXCEPT ![c] = r.val.channels]
            /\ requested' = [requested EXCEPT ![c] = r.val.channels]
            /\ UNCHANGED <<dbVars, sent, permits, pub_sub, chanLog, rx_cnt, rx,
                           subscriptions, out, joined, lagged, seen>>
       ELSE /\ entities' = ApplyEntities(r.val)
            /\ expirations' = ApplyExpirations(r.val)
            /\ background_task' = ApplyNotify(r.val)
            /\ chanLog' = ApplyChanLog(r.val)
            /\ sent' = [sent EXCEPT ![c] = Some(Written(ApplyResponse(r.val)))]
            /\ handler' = [handler EXCEPT ![c].pc = "select", ![c].req = Null]
            /\ UNCHANGED <<now, shutdown, purger, lastWrite, permits, pub_sub,
                           rx_cnt, mode, channels, rx, subscriptions, out,
                           requested, joined, lagged, seen>>
    /\ UNCHANGED <<reply, codecVars, auxVars, serverPc, notified, listener, reads>>

\* The server after Listener construction in server::run.
InitServer ==
    /\ serverPc = "select"
    /\ notified = FALSE
    /\ listener = [pc |-> "acquire", backoff |-> 1, slept |-> <<>>]
    /\ permits = MAX_CONNECTIONS
    /\ handler = [c \in Conns |-> NoHandler]
    /\ sent = [c \in Conns |-> None]
    /\ reads = 0

\* No bytes have arrived.
NoInput == [bytes |-> <<>>, bad |-> 0]

IdleCodec ==
    /\ input = NoInput
    /\ buffer = <<>>
    /\ checked = None
    /\ parsed = None

(***************************************************************************)
(* The frame codec.  A byte is a token: a tag byte, a digit, the letter    *)
(* "a", "CR", "LF", or "!" for a byte that is no tag.  A cursor is the     *)
(* buffer and a position, counted from 0.                                  *)
(***************************************************************************)
STRING_BYTE == "+"
ERROR_BYTE == "-"
BULK_BYTE == "$"
INTEGER_BYTE == ":"
ARRAY_BYTE == "*"

Digits == <<"0", "1", "2", "3", "4", "5", "6", "7", "8", "9">>

IsDigit(b) == \E i \in 1..10 : Digits[i] = b

DigitValue(b) == (CHOOSE i \in 1..10 : Digits[i] = b) - 1

Cursor(buf) == [buf |-> buf, pos |-> 0]

Remaining(src) == Len(src.buf) - src.pos

\* The outcomes of a codec function: Ok with the cursor's new position and a
\* value, an error of CacheError, or a panic.
CodecOk(pos, val) == [res |-> "Ok", pos |-> pos, val |-> val]
CodecIncomplete == [res |-> "Incomplete", pos |-> 0, val |-> Null]
CodecInvalid == [res |-> "Invalid", pos |-> 0, val |-> Null]
CodecPanic == [res |-> "Panic", pos |-> 0, val |-> Null]

At(src, pos) == [src EXCEPT !.pos = pos]

peek_u8(src) ==
    IF Remaining(src) = 0 THEN CodecIncomplete
    ELSE CodecOk(src.pos, src.buf[src.pos + 1])

get_u8(src) ==
    IF Remaining(src) = 0 THEN CodecIncomplete
    ELSE CodecOk(src.pos + 1, src.buf[src.pos + 1])

\* A skip that does not look at what remains.
skipUnchecked(src, n) == CodecOk(src.pos + n, Null)

skip(src, n) ==
    IF Remaining(src) < n THEN CodecIncomplete
    ELSE CodecOk(src.pos + n, Null)

\* get_line: i runs over start..end-1 with end = len - 1 (len - 1 underflows
\* on an empty buffer: a panic, by the overflow check or by the index).
get_line(src) ==
    IF Len(src.buf) = 0 THEN CodecPanic
    ELSE LET start == src.pos
             end == Len(src.buf) - 1
             hits == {i \in start..(end - 1) :
                         src.buf[i + 1] = "CR" /\ src.buf[i + 2] = "LF"}
         IN IF hits = {} THEN CodecIncomplete
            ELSE LET i == CHOOSE h \in hits : \A g \in hits : h <= g
                 IN CodecOk(i + 2, SubSeq(src.buf, start + 1, i))

RECURSIVE DigitsValue(_, _)
\* The value of the leading digits of line, after acc.
DigitsValue(line, acc) ==
    IF line = <<>> \/ ~IsDigit(Head(line)) THEN acc
    ELSE DigitsValue(Tail(line), acc * 10 + DigitValue(Head(line)))

\* atoi::<i64>: an optional sign, then the leading digits; None when there
\* is no digit.
atoi(line) ==
    LET signed == line # <<>> /\ Head(line) \in {"+", "-"}
        rest == IF signed THEN Tail(line) ELSE line
    IN IF rest = <<>> \/ ~IsDigit(Head(rest)) THEN None
       ELSE IF signed /\ Head(line) = "-" THEN Some(0 - DigitsValue(rest, 0))
       ELSE Some(DigitsValue(rest, 0))

get_decimal(src) ==
    LET line == get_line(src) IN
    IF line.res # "Ok" THEN line
    ELSE IF atoi(line.val) = None THEN CodecInvalid
    ELSE CodecOk(line.pos, atoi(line.val)[1])

\* i64 to usize: try_into()? fails on a negative number.
TryIntoUsize(r) == IF r.res = "Ok" /\ r.val < 0 THEN CodecInvalid ELSE r

RECURSIVE Check(_)
RECURSIVE CheckLoop(_, _)
\* Entity::check: for _ in 0..len { Entity::check(src)?; }
CheckLoop(src, len) ==
    IF len <= 0 THEN CodecOk(src.pos, Null)
    ELSE LET r == Check(src) IN
         IF r.res # "Ok" THEN r ELSE CheckLoop(At(src, r.pos), len - 1)

\* Entity::check.
Check(src) ==
    LET tag == get_u8(src) IN
    IF tag.res # "Ok" THEN tag
    ELSE LET s == At(src, tag.pos) IN
         CASE tag.val \in {STRING_BYTE, ERROR_BYTE} ->
                  (LET line == get_line(s) IN
                   IF line.res # "Ok" THEN line ELSE CodecOk(line.pos, Null))
           [] tag.val = INTEGER_BYTE ->
                  (LET num == get_decimal(s) IN
                   IF num.res # "Ok" THEN num ELSE CodecOk(num.pos, Null))
           [] tag.val = BULK_BYTE ->
                  (LET next == peek_u8(s) IN
                   IF next.res # "Ok" THEN next
                   ELSE IF next.val = "-" THEN skip(s, 4)
                   ELSE LET len == TryIntoUsize(get_decimal(s)) IN
                        IF len.res # "Ok" THEN len
                        ELSE skip(At(s, len.pos), len.val + 2))
           [] tag.val = ARRAY_BYTE ->
                  (LET len == get_decimal(s) IN
                   IF len.res # "Ok" THEN len
                   ELSE CheckLoop(At(s, len.pos), len.val))
           [] OTHER -> CodecInvalid

\* Simple and Error frames of the codec carry their line as bytes.
RECURSIVE Parse(_)
RECURSIVE ParseLoop(_, _, _)
\* Entity::parse: for _ in 0..len { out.push(Entity::parse(src)?); }
ParseLoop(src, len, vec) ==
    IF len <= 0 THEN CodecOk(src.pos, Array(vec))
    ELSE LET r == Parse(src) IN
         IF r.res # "Ok" THEN r
         ELSE ParseLoop(At(src, r.pos), len - 1, Append(vec, r.val))

\* Entity::parse; the last arm is unimplemented!().
Parse(src) ==
    LET tag == get_u8(src) IN
    IF tag.res # "Ok" THEN tag
    ELSE LET s == At(src, tag.pos) IN
         CASE tag.val = STRING_BYTE ->
                  (LET line == get_line(s) IN
                   IF line.res # "Ok" THEN line
                   ELSE CodecOk(line.pos, Simple(line.val)))
           [] tag.val = ERROR_BYTE ->
                  (LET line == get_line(s) IN
                   IF line.res # "Ok" THEN line
                   ELSE CodecOk(line.pos, Error(line.val)))
           [] tag.val = INTEGER_BYTE ->
                  (LET num == get_decimal(s) IN
                   IF num.res # "Ok" THEN num
                   ELSE CodecOk(num.pos, Integer(num.val)))
           [] tag.val = BULK_BYTE ->
                  (LET next == peek_u8(s) IN
                   IF next.res # "Ok" THEN next
                   ELSE IF next.val = ERROR_BYTE
                   THEN LET line == get_line(s) IN
                        IF line.res # "Ok" THEN line
                        ELSE IF line.val # <<"-", "1">> THEN CodecInvalid
                        ELSE CodecOk(line.pos, Null)
                   ELSE LET len == TryIntoUsize(get_decimal(s)) IN
                        IF len.res # "Ok" THEN len
                        ELSE LET body == At(s, len.pos) IN
                             IF Remaining(body) < len.val + 2
                             THEN CodecIncomplete
                             ELSE CodecOk(body.pos + len.val + 2,
                                          Bulk(SubSeq(body.buf, body.pos + 1,
                                                      body.pos + len.val))))
           [] tag.val = ARRAY_BYTE ->
                  (LET len == TryIntoUsize(get_decimal(s)) IN
                   IF len.res # "Ok" THEN len
                   ELSE ParseLoop(At(s, len.pos), len.val, <<>>))
           [] OTHER -> CodecPanic

RECURSIVE Decimal(_)
\* The decimal digits of an integer.
Decimal(n) ==
    IF n < 0 THEN <<"-">> \o Decimal(0 - n)
    ELSE IF n < 10 THEN <<Digits[n + 1]>>
    ELSE Decimal(n \div 10) \o <<Digits[(n % 10) + 1]>>

CRLF == <<"CR", "LF">>

RECURSIVE Encode(_)
RECURSIVE EncodeAll(_)
EncodeAll(vec) ==
    IF vec = <<>> THEN <<>> ELSE Encode(Head(vec)) \o EncodeAll(Tail(vec))

\* The wire form of a frame, by the grammar.
Encode(e) ==
    CASE e.tag = "Simple" -> <<STRING_BYTE>> \o e.text \o CRLF
      [] e.tag = "Error" -> <<ERROR_BYTE>> \o e.text \o CRLF
      [] e.tag = "Integer" -> <<INTEGER_BYTE>> \o Decimal(e.int) \o CRLF
      [] e.tag = "Bulk" ->
             <<BULK_BYTE>> \o Decimal(Len(e.data)) \o CRLF \o e.data \o CRLF
      [] e.tag = "Null" -> <<BULK_BYTE, "-", "1">> \o CRLF
      [] e.tag = "Array" ->
             <<ARRAY_BYTE>> \o Decimal(Len(e.vec)) \o CRLF \o EncodeAll(e.vec)

\* Frames without children.
CodecLeaves ==
    {Simple(<<>>), Simple(<<"a">>), Error(<<"a", "CR", "a">>),
     Integer(0), Integer(-1), Integer(12),
     Bulk(<<>>), Bulk(<<"a">>), Bulk(<<"CR", "LF">>), Null}

\* Arrays, up to MaxArrayLen children at the top level.
CodecArrays ==
    {Array(<<>>), Array(<<Array(<<Bulk(<<"a">>)>>)>>)}
        \cup {Array(vec) : vec \in UNION {[1..n -> {Simple(<<"a">>), Integer(1),
                                                     Bulk(<<"a">>), Null}] :
                                             n \in 1..MaxArrayLen}}

CodecValues == CodecLeaves \cup CodecArrays

\* What a peer sends: one valid frame (bad = 0), or bytes with a byte that is
\* no tag where a frame starts, at position bad.
ValidInputs == {[bytes |-> Encode(e), bad |-> 0] : e \in CodecValues}

BadTagInputs ==
    {[bytes |-> <<"!", "a">> \o CRLF, bad |-> 1],
     [bytes |-> <<"!">>, bad |-> 1],
     [bytes |-> <<ARRAY_BYTE, "1">> \o CRLF \o <<"!", "a">> \o CRLF, bad |-> 5],
     [bytes |-> <<ARRAY_BYTE, "2">> \o CRLF \o Encode(Null) \o <<"!">>,
      bad |-> 10]}

\* Bytes that are no frame of the grammar although every frame in them
\* starts with a tag byte: a bulk payload not followed by CR LF, headers that
\* start with $- and are not the null frame, an array of length -1; and a
\* frame followed by the first byte of the next one.
MalformedInputs ==
    {[bytes |-> <<BULK_BYTE, "1">> \o CRLF \o <<"a", "a", "a">>, bad |-> 0],
     [bytes |-> <<BULK_BYTE, "-", "1", "CR", "a">>, bad |-> 0],
     [bytes |-> <<BULK_BYTE, "-", "2">> \o CRLF, bad |-> 0],
     [bytes |-> <<ARRAY_BYTE, "-", "1">> \o CRLF, bad |-> 0],
     [bytes |-> Encode(Simple(<<"a">>)) \o <<STRING_BYTE>>, bad |-> 0]}

CodecInputs == ValidInputs \cup BadTagInputs \cup MalformedInputs

\* The position of the first CR LF at or after pos, or -1.
LineEnd(buf, pos) ==
    LET hits == {i \in pos..(Len(buf) - 2) :
                    buf[i + 1] = "CR" /\ buf[i + 2] = "LF"}
    IN IF hits = {} THEN -1 ELSE CHOOSE h \in hits : \A g \in hits : h <= g

\* decimal: one digit at least, digits only.
IsDecimal(line) ==
    line # <<>> /\ \A i \in 1..Len(line) : IsDigit(line[i])

\* signed-decimal
IsSignedDecimal(line) ==
    \/ IsDecimal(line)
    \/ line # <<>> /\ Head(line) = "-" /\ IsDecimal(Tail(line))

RECURSIVE FrameEnd(_, _)
RECURSIVE FramesEnd(_, _, _)
\* The position past n frames of the grammar that start at pos, or -1.
FramesEnd(buf, pos, n) ==
    IF n = 0 THEN pos
    ELSE LET end == FrameEnd(buf, pos) IN
         IF end = -1 THEN -1 ELSE FramesEnd(buf, end, n - 1)

\* The position past the one complete frame of the grammar that starts at
\* pos, or -1 when the bytes at pos do not begin with a complete frame.
FrameEnd(buf, pos) ==
    IF pos >= Len(buf) THEN -1
    ELSE LET tag == buf[pos + 1]
             eol == LineEnd(buf, pos + 1)
             line == SubSeq(buf, pos + 2, eol)
         IN  IF eol = -1 THEN -1
             ELSE CASE tag \in {STRING_BYTE, ERROR_BYTE} -> eol + 2
                    [] tag = INTEGER_BYTE ->
                           (IF IsSignedDecimal(line) THEN eol + 2 ELSE -1)
                    [] tag = BULK_BYTE ->
                           (IF line = <<"-", "1">> THEN eol + 2
                            ELSE IF ~IsDecimal(line) THEN -1
                            ELSE LET len == DigitsValue(line, 0)
                                     stop == eol + 2 + len
                                 IN IF stop + 2 <= Len(buf)
                                       /\ buf[stop + 1] = "CR"
                                       /\ buf[stop + 2] = "LF"
                                    THEN stop + 2 ELSE -1)
                    [] tag = ARRAY_BYTE ->
                           (IF ~IsDecimal(line) THEN -1
                            ELSE FramesEnd(buf, eol + 2, DigitsValue(line, 0)))
                    [] OTHER -> -1

\* A peer starts sending.
PeerSends(i) ==
    /\ input = NoInput
    /\ input' = i
    /\ UNCHANGED <<dbVars, reply, psVars, srvVars, auxVars, buffer, checked, parsed>>

\* One more byte of the input arrives in the buffer.
SocketRead ==
    /\ Len(buffer) < Len(input.bytes)
    /\ buffer' = Append(buffer, input.bytes[Len(buffer) + 1])
    /\ checked' = None
    /\ parsed' = None
    /\ UNCHANGED <<dbVars, reply, psVars, srvVars, auxVars, input>>

\* Entity::check on a cursor over the buffer.
CodecCheck ==
    /\ input # NoInput
    /\ checked = None
    /\ checked' = Some(Check(Cursor(buffer)))
    /\ UNCHANGED <<dbVars, reply, psVars, srvVars, auxVars, input, buffer, parsed>>

\* Entity::parse on a cursor over the buffer.
CodecParse ==
    /\ input # NoInput
    /\ parsed = None
    /\ parsed' = Some(Parse(Cursor(buffer)))
    /\ UNCHANGED <<dbVars, reply, psVars, srvVars, auxVars, input, buffer, checked>>

(***************************************************************************)
(* Db::new: empty maps, the flag clear, the purger task spawned.           *)
(***************************************************************************)
InitKV ==
    /\ now = 0
    /\ entities = <<>>
    /\ expirations = {}
    /\ shutdown = FALSE
    /\ background_task = FALSE
    /\ purger = [pc |-> "check", when |-> None]
    /\ reply = NoReply
    /\ lastWrite = [k \in Keys |-> NoWrite]

\* No channel is registered; every connection is in its command loop.
InitPS ==
    /\ pub_sub = {}
    /\ chanLog = [ch \in Channels |-> <<>>]
    /\ rx_cnt = [ch \in Channels |-> 0]
    /\ mode = [c \in Conns |-> "command"]
    /\ channels = [c \in Conns |-> <<>>]
    /\ rx = [c \in Conns |-> None]
    /\ subscriptions = [c \in Conns |-> <<>>]
    /\ out = [c \in Conns |-> <<>>]
    /\ requested = [c \in Conns |-> <<>>]
    /\ joined = [c \in Conns |-> [ch \in Channels |-> None]]
    /\ lagged = [c \in Conns |-> {}]
    /\ seen = [c \in Conns |-> [ch \in Channels |-> <<>>]]

\* No call of Db::set or Db::shutdown_purge_task is under way.
NoCallers == [set |-> 0, shutdown |-> FALSE]

NoSet == [unit |-> "none", n |-> 0, panic |-> FALSE, lifetime |-> None]

InitAux ==
    /\ callers = NoCallers
    /\ lastSet = NoSet

Init == InitKV /\ InitPS /\ InitServer /\ IdleCodec /\ InitAux

NextKV ==
    \/ \E k \in Keys : Get(k)
    \/ \E k \in Keys : Del(k)
    \/ \E k \in Keys, v \in Values, e \in Durations : Set(k, v, e)
    \/ PurgerCheck
    \/ PurgerPurge
    \/ PurgerNotified
    \/ PurgerTimeout
    \/ Tick

\* The key/value commands, the purger and the clock.
SpecKV == Init /\ [][NextKV]_vars

(***************************************************************************)
(* handle_command of src/src/cmd/subscribe.rs, the arm of the commands     *)
(* that Subscribe::apply does not serve.                                   *)
(***************************************************************************)
\* Command::get_name
get_name(cmd) ==
    CASE cmd.name = "set" -> "set"
      [] cmd.name = "get" -> "get"
      [] cmd.name = "del" -> "del"
      [] cmd.name = "publish" -> "pub"
      [] cmd.name = "subscribe" -> "subscribe"
      [] cmd.name = "unsubscribe" -> "unsubsribe"
      [] cmd.name = "ping" -> "ping"
      [] cmd.name = "unknown" -> cmd.command_name

\* The requests a subscribed client sends besides SUBSCRIBE and UNSUBSCRIBE.
OtherRequests ==
    {Array(<<Bulk("GET"), Bulk("k1")>>),
     Array(<<Bulk("set"), Bulk("k1"), Bulk("v1")>>),
     Array(<<Bulk("del"), Bulk("k1")>>),
     Array(<<Bulk("publish"), Bulk("news"), Integer(0)>>),
     Array(<<Bulk("ping")>>)}

\* The one of them the subscribers of SpecPubSub send.
PingRequests == {Array(<<Bulk("ping")>>)}

\* Command::get_name of these requests.
OtherNames == {get_name(FromFrame(frame).val) : frame \in OtherRequests}

\* A handle_command that runs the command as Handler::run would.
ReadOtherApplied(c, frame) ==
    /\ AtSelect(c)
    /\ TotalOut < MaxOut
    /\ LET r == FromFrame(frame) IN
       /\ r.ok
       /\ r.val.name \notin {"subscribe", "unsubscribe"}
       /\ entities' = ApplyEntities(r.val)
       /\ expirations' = ApplyExpirations(r.val)
       /\ chanLog' = ApplyChanLog(r.val)
       /\ out' = [out EXCEPT ![c] = Append(@, ApplyResponse(r.val))]
    /\ UNCHANGED <<restVars, now, shutdown, background_task, purger, lastWrite,
                   reply, pub_sub, rx_cnt, mode, channels, rx, subscriptions,
                   requested, joined, lagged, seen>>

\* select!: read_frame yields a frame that decodes to any other command:
\* Unknown::new(command.get_name()).apply(dst).
ReadOther(c, frame) ==
    /\ AtSelect(c)
    /\ TotalOut < MaxOut
    /\ LET r == FromFrame(frame) IN
       /\ r.ok
       /\ r.val.name \notin {"subscribe", "unsubscribe"}
       /\ out' = [out EXCEPT ![c] = Append(@, UnknownFrame(get_name(r.val)))]
    /\ UNCHANGED <<restVars, dbVars, reply, pub_sub, chanLog, rx_cnt, mode, channels, rx,
                   subscriptions, requested, joined, lagged, seen>>

NextPubSub ==
    \/ \E ch \in Channels : Publish(ch, NextValue(ch))
    \/ \E c \in Conns, chans \in SubscribeArgs : SubscribeCmd(c, chans)
    \/ \E c \in Conns : SubscribeToChannelDb(c)
    \/ \E c \in Conns : SubscribeToChannelInsert(c)
    \/ \E c \in Conns : \E i \in 1..Len(subscriptions[c]) : Deliver(c, i)
    \/ \E c \in Conns, chans \in SubscribeArgs : ReadSubscribe(c, chans)
    \/ \E c \in Conns, chans \in UnsubscribeArgs : ReadUnsubscribe(c, chans)
    \/ \E c \in Conns, frame \in PingRequests : ReadOther(c, frame)
    \/ \E c \in Conns : Disconnect(c)

\* Publishers and the connections that subscribe.
SpecPubSub == Init /\ [][NextPubSub]_vars

\* One channel, its publishers, the subscribers and every request they may
\* send in subscribe mode, and other clients' SET of one key.
NextSubscribeMode ==
    \/ \E v \in Values, e \in {None, Some(1)} : Set("k1", v, e)
    \/ Publish("news", NextValue("news"))
    \/ \E c \in Conns : SubscribeCmd(c, <<"news">>)
    \/ \E c \in Conns : SubscribeToChannelDb(c)
    \/ \E c \in Conns : SubscribeToChannelInsert(c)
    \/ \E c \in Conns : \E i \in 1..Len(subscriptions[c]) : Deliver(c, i)
    \/ \E c \in Conns : ReadUnsubscribe(c, <<>>)
    \/ \E c \in Conns, frame \in OtherRequests : ReadOther(c, frame)
    \/ \E c \in Conns : Disconnect(c)

SpecSubscribeMode == Init /\ [][NextSubscribeMode]_vars

(***************************************************************************)
(* SET with an expiration: Set::parse_frames, then Db::set.                *)
(***************************************************************************)
\* SET k1 v1 EX n and SET k1 v1 PX n for every i64 n.
ExpireRequests ==
    {Array(<<Bulk("set"), Bulk("k1"), Bulk("v1"), Bulk(unit), Integer(n)>>) :
        unit \in {"ex", "px"}, n \in I64}

\* Instant::now() + duration: the addition panics when the seconds of the
\* sum do not fit the i64 an Instant keeps them in.
InstantAddOverflows(instant, duration) ==
    (instant + duration) \div MillisPerSec > I64Max

\* The handler decodes the request and calls Db::set.  When the addition
\* panics the task unwinds before the maps are touched.  lastSet records the
\* option, its argument, and the lifetime of the entry that was stored.
SetExpire(frame) ==
    /\ LET r == FromFrame(frame)
           unit == Upper(frame.vec[4].data)
           n == frame.vec[5].int
       IN  /\ r.ok
           /\ r.val.name = "set"
           /\ r.val.expire # None
           /\ IF InstantAddOverflows(now, r.val.expire[1])
              THEN /\ lastSet' = [unit |-> unit, n |-> n, panic |-> TRUE,
                                  lifetime |-> None]
                   /\ UNCHANGED <<entities, expirations, background_task>>
              ELSE /\ entities' = ApplyEntities(r.val)
                   /\ expirations' = ApplyExpirations(r.val)
                   /\ background_task' = ApplyNotify(r.val)
                   /\ lastSet' = [unit |-> unit, n |-> n, panic |-> FALSE,
                                  lifetime |->
                                      Some(ExpiresAt(r.val.expire)[1] - now)]
    /\ UNCHANGED <<now, shutdown, purger, reply, lastWrite, psVars, srvVars,
                   codecVars, callers>>

NextExpire ==
    \/ \E frame \in ExpireRequests : SetExpire(frame)
    \/ PurgerCheck
    \/ PurgerPurge
    \/ PurgerNotified
    \/ PurgerTimeout
    \/ Tick

\* SET with EX and PX, the purger and the clock (one tick is a millisecond).
SpecExpire == Init /\ [][NextExpire]_vars

NextServer ==
    \/ ListenerAcquire
    \/ \E c \in Conns : ListenerAcceptOk(c)
    \/ ListenerAcceptErr
    \/ ListenerSleep
    \/ ServerShutdown
    \/ ServerDrained
    \/ \E c \in Conns, frame \in Requests : HandlerRead(c, frame)
    \/ \E c \in Conns : HandlerApply(c)
    \/ \E c \in Conns : HandlerReadEof(c)
    \/ \E c \in Conns : HandlerReadErr(c)
    \/ \E c \in Conns : HandlerShutdown(c)
    \/ \E c \in Conns : SubscribeToChannelDb(c)
    \/ \E c \in Conns : SubscribeToChannelInsert(c)

\* The listener, the handlers and the shutdown of server::run.
SpecServer == Init /\ [][NextServer]_vars

\* The tokio scheduler polls every spawned task and the task of server::run
\* again and again, and select! picks among its ready branches at random, so
\* a handler that keeps coming back to its select! with the shutdown
\* signalled eventually takes that branch.
FairServer ==
    /\ WF_vars(ServerDrained)
    /\ \A c \in Conns :
           /\ WF_vars(HandlerApply(c))
           /\ WF_vars(SubscribeToChannelDb(c))
           /\ WF_vars(SubscribeToChannelInsert(c))
           /\ SF_vars(HandlerShutdown(c))

FairSpecServer == SpecServer /\ FairServer

NextPurger ==
    \/ \E k \in Keys, v \in Values, e \in Durations : DbSetLocked(k, v, e)
    \/ DbSetNotifyOne
    \/ \E k \in Keys : DbDelLocked(k)
    \/ ShutdownPurgeTaskLocked
    \/ ShutdownPurgeTaskNotifyOne
    \/ PurgerCheck
    \/ PurgerPurge
    \/ PurgerNotified
    \/ PurgerTimeout
    \/ Tick

\* The methods of Db, the purger and the clock.
SpecPurger == Init /\ [][NextPurger]_vars

\* The purger is a spawned task and a caller that has released the lock
\* goes on to its notify_one: the scheduler runs each of them again.
FairPurger ==
    /\ WF_vars(PurgerCheck)
    /\ WF_vars(PurgerPurge)
    /\ WF_vars(PurgerNotified)
    /\ WF_vars(ShutdownPurgeTaskNotifyOne)

\* The same with the SETs of one key and one value, for the properties of
\* the purger that do not depend on what is stored.
NextPurgerOneKey ==
    \/ \E e \in Durations : DbSetLocked("k1", Bulk("v1"), e)
    \/ DbSetNotifyOne
    \/ DbDelLocked("k1")
    \/ ShutdownPurgeTaskLocked
    \/ ShutdownPurgeTaskNotifyOne
    \/ PurgerCheck
    \/ PurgerPurge
    \/ PurgerNotified
    \/ PurgerTimeout
    \/ Tick

FairSpecPurger == Init /\ [][NextPurgerOneKey]_vars /\ FairPurger

NextCodec ==
    \/ \E i \in CodecInputs : PeerSends(i)
    \/ SocketRead
    \/ CodecCheck
    \/ CodecParse

SpecCodec == Init /\ [][NextCodec]_vars

(***************************************************************************)
(* Claims about the key/value commands, checked under SpecKV.              *)
(***************************************************************************)
\* The last write applied to key k was a SET without expiry.
PinnedNoExpiry(k) == lastWrite[k].op = "set" /\ lastWrite[k].expires_at = None

\* The last write applied to key k was a SET with an expiry whose deadline
\* lies in the future.  (The SET was applied at or before now, so a deadline
\* after now implies an expiry of at least one time unit.)
PinnedBeforeDeadline(k) ==
    /\ lastWrite[k].op = "set"
    /\ lastWrite[k].expires_at # None
    /\ now < lastWrite[k].expires_at[1]

\* The entry of key k is in the map and its deadline has passed.
PresentButExpired(k) ==
    /\ k \in DOMAIN entities
    /\ entities[k].expires_at # None
    /\ entities[k].expires_at[1] <= now

\* C1: a GET of key k applied while the last write to k is a SET k v without
\* expiry answers v, whatever was applied to k before that SET and however
\* the purger and the clock interleave.
C1_GetAfterSetNoExpiry ==
    [][\A k \in Keys :
          (PinnedNoExpiry(k) /\ Get(k)) => reply'.val = lastWrite[k].val]_vars

\* C2: a GET of a key whose entry is in the map with a deadline at or before
\* now answers Null.
C2_GetExpiredIsNull ==
    [][\A k \in Keys :
          (PresentButExpired(k) /\ Get(k)) => reply'.val = Null]_vars

\* C3 (the part a finite run refutes): a GET of key k applied strictly before
\* the deadline of the last SET k v EX s, with no SET or DEL on k since,
\* answers v.
C3_GetBeforeDeadline ==
    [][\A k \in Keys :
          (PinnedBeforeDeadline(k) /\ Get(k)) => reply'.val = lastWrite[k].val]_vars

\* C4: invariant I1: <<t, key>> is in the expiration index if and only if
\* key is in the entries map with expires_at = Some(t).
C4_I1 ==
    /\ \A p \in expirations :
          p[2] \in DOMAIN entities /\ entities[p[2]].expires_at = Some(p[1])
    /\ \A k \in DOMAIN entities :
          entities[k].expires_at # None
              => <<entities[k].expires_at[1], k>> \in expirations

\* C5: invariant I2: every entry a purger pass removes from the entries map
\* has its own expires_at = Some(t) with t <= now.
C5_I2 ==
    [][PurgerPurge =>
          \A k \in DOMAIN entities \ DOMAIN entities' :
              /\ entities[k].expires_at # None
              /\ entities[k].expires_at[1] <= now]_vars

\* C6: DEL k answers Simple("OK") whether or not k is present; a DEL k
\* applied when the last write to k was already a DEL leaves the entries map
\* as it was; a GET k applied while the last write to k is a DEL answers Null.
C6_DelIdempotent ==
    [][\A k \in Keys :
          /\ Del(k) => /\ reply'.val = Simple("OK")
                       /\ k \notin DOMAIN entities'
                       /\ lastWrite[k].op = "del" => entities' = entities
          /\ (lastWrite[k].op = "del" /\ Get(k)) => reply'.val = Null]_vars

\* C6 witness: a GET answered Null for a key deleted while its entry had a
\* deadline (the pair of the deleted entry is still in the index).
C6_Witness ==
    /\ reply.cmd = "get"
    /\ reply.val = Null
    /\ lastWrite[reply.key].op = "del"
    /\ \E p \in expirations : p[2] = reply.key

(***************************************************************************)
(* Claims about pub/sub, checked under SpecPubSub.                         *)
(***************************************************************************)
\* The receivers that are alive on channel ch.
LiveReceivers(ch) == Held("c1", ch) + Held("c2", ch)

\* C7: PUBLISH ch m answers Integer(n), n the number of receivers alive on
\* exactly the channel name ch: 0 when no sender is registered for ch, 0 when
\* the sender has no receiver left.
C7_PublishCount ==
    [][\A ch \in Channels :
          Publish(ch, NextValue(ch)) =>
              /\ reply'.val = Integer(LiveReceivers(ch))
              /\ ch \notin pub_sub => reply'.val = Integer(0)]_vars

\* C7 witness: a publish answered 2 on a channel that each of the two
\* connections holds one receiver of.
C7_Witness ==
    /\ reply.cmd = "publish"
    /\ reply.val = Integer(2)
    /\ Held("c1", reply.key) = 1
    /\ Held("c2", reply.key) = 1

\* C8: a connection that registered channel ch at position p, has not lagged
\* on it and has not unsubscribed from it since, has been delivered the values
\* p+1, p+2, ... of the channel, in that order, none missing.
C8_NoLossInOrder ==
    \A c \in Conns, ch \in Channels :
        (joined[c][ch] # None /\ ch \notin lagged[c]) =>
            \A i \in 1..Len(seen[c][ch]) : seen[c][ch][i] = joined[c][ch][1] + i

IsSubscribeFrame(f) == f.tag = "Array" /\ f.vec[1] = Bulk("subscribe")

IsUnsubscribeFrame(f) == f.tag = "Array" /\ f.vec[1] = Bulk("unsubscribe")

IsMessageFrame(f) == f.tag = "Array" /\ f.vec[1] = Bulk("message")

\* The channels a client is subscribed to after it has read frames[1..i].
RECURSIVE SubscribedAfter(_, _)
SubscribedAfter(frames, i) ==
    IF i = 0 THEN {}
    ELSE LET before == SubscribedAfter(frames, i - 1)
             f == frames[i]
         IN  IF IsSubscribeFrame(f) THEN before \cup {f.vec[2]}
             ELSE IF IsUnsubscribeFrame(f) THEN before \ {f.vec[2]}
             ELSE before

\* C10: the subscribe confirmations a connection has been sent are, in order,
\* the channels it asked for and has subscribed so far, one frame each; the
\* count of a confirmation is the number of distinct channels subscribed right
\* after it; a message frame of a channel comes after a confirmation of it.
C10_SubscribeFrames ==
    \A c \in Conns :
        LET conf == SelectSeq(out[c], IsSubscribeFrame)
            pending == Len(channels[c]) + (IF rx[c] # None THEN 1 ELSE 0)
        IN  /\ Len(conf) = Len(requested[c]) - pending
            /\ \A i \in 1..Len(conf) : conf[i].vec[2] = Bulk(requested[c][i])
            /\ \A i \in 1..Len(out[c]) :
                  IsSubscribeFrame(out[c][i]) =>
                      out[c][i].vec[3] =
                          Integer(Cardinality(SubscribedAfter(out[c], i)))
            /\ \A i \in 1..Len(out[c]) :
                  IsMessageFrame(out[c][i]) =>
                      \E j \in 1..(i - 1) :
                          /\ IsSubscribeFrame(out[c][j])
                          /\ out[c][j].vec[2] = out[c][i].vec[2]

\* C10 witness: a connection subscribed to the same channel twice, both
\* confirmations count 1, and was then sent a message of the channel.
C10_Witness ==
    \E c \in Conns :
        /\ Len(out[c]) = 3
        /\ out[c][1] = make_subscribe_frame("news", 1)
        /\ out[c][2] = make_subscribe_frame("news", 1)
        /\ IsMessageFrame(out[c][3])

\* The channels in the StreamMap of connection c.
SubscribedSet(c) == {subscriptions[c][i].chan : i \in 1..Len(subscriptions[c])}

\* C11: UNSUBSCRIBE with a list removes each listed channel, with the empty
\* list every subscribed channel; the frames it writes are one
\* Array("unsubscribe", channel, count) per channel, count the number of
\* channels still subscribed after that removal; a message frame of a channel
\* is only ever written while the channel is subscribed, and every value
\* delivered was published after the channel was registered.
C11_Unsubscribe ==
    [][/\ \A c \in Conns, chans \in UnsubscribeArgs :
             ReadUnsubscribe(c, chans) =>
                 LET before == SubscribedSet(c)
                     new == SubSeq(out'[c], Len(out[c]) + 1, Len(out'[c]))
                     named == {new[i].vec[2] : i \in 1..Len(new)}
                 IN  /\ \A i \in 1..Len(new) :
                           /\ IsUnsubscribeFrame(new[i])
                           /\ new[i].vec[3] = Integer(Cardinality(
                                  {ch \in before :
                                     \A j \in 1..i : new[j].vec[2] # Bulk(ch)}))
                     /\ chans # <<>> =>
                           /\ Len(new) = Len(chans)
                           /\ \A i \in 1..Len(new) : new[i].vec[2] = Bulk(chans[i])
                           /\ \A i \in 1..Len(chans) :
                                 ~HasKey(subscriptions'[c], chans[i])
                     /\ chans = <<>> =>
                           /\ Len(new) = Cardinality(before)
                           /\ named = {Bulk(ch) : ch \in before}
                           /\ subscriptions'[c] = <<>>
       /\ \A c \in Conns : \A i \in 1..Len(out'[c]) :
             IsMessageFrame(out'[c][i]) =>
                 out'[c][i].vec[2] \in SubscribedAfter(out'[c], i - 1)
       /\ \A c \in Conns, ch \in Channels :
             joined'[c][ch] # None =>
                 \A i \in 1..Len(seen'[c][ch]) :
                     seen'[c][ch][i] > joined'[c][ch][1]]_vars

\* C11 witness: a connection subscribed to two channels unsubscribed from the
\* first, and the frame counts the one that remains.
C11_Witness ==
    \E c \in Conns :
        /\ out[c] = <<make_subscribe_frame("news", 1),
                      make_subscribe_frame("News", 2),
                      make_unsubscribe_frame("news", 1)>>
        /\ SubscribedSet(c) = {"News"}

\* The error a request of ErrorRequests produces: that of Command::from_frame,
\* or that of Command::apply for an UNSUBSCRIBE.
RequestError(frame) ==
    IF FromFrame(frame).ok
    THEN Other("Unsubsribe is unsuppored in this context")
    ELSE FromFrame(frame).err

\* C12: a command-level error on a well-framed request (an unknown SET option,
\* an argument of the wrong type, a missing or surplus argument, UNSUBSCRIBE
\* outside a SUBSCRIBE context) is written to the peer as an Error frame, the
\* storage is unchanged, and the handler goes back to reading the next
\* command.
C12_CommandErrorReported ==
    [][\A c \in Conns :
          (handler[c].pc = "apply" /\ handler[c].req \in ErrorRequests
              /\ handler'[c] # handler[c])
          => /\ sent'[c] # None
             /\ sent'[c][1].frame = Error(RequestError(handler[c].req).msg)
             /\ handler'[c].pc = "select"
             /\ UNCHANGED <<entities, expirations, pub_sub>>]_vars

\* C13: a request whose command name is none of get, set, del, publish, ping,
\* subscribe, unsubscribe is answered Error("ERR unknown command '<name>'")
\* with the name in lower case; the entries map, the expiration index and the
\* pub/sub registry are unchanged and the handler reads the next command.
C13_UnknownCommand ==
    [][\A c \in Conns :
          (handler[c].pc = "apply" /\ handler[c].req \in UnknownRequests
              /\ handler'[c] # handler[c])
          => /\ sent'[c] # None
             /\ sent'[c][1].frame =
                    Error(<<"ERR unknown command '",
                            ToLowercase(handler[c].req.vec[1].data), "'">>)
             /\ handler'[c].pc = "select"
             /\ UNCHANGED <<entities, expirations, pub_sub, chanLog>>]_vars

\* C13 witness: with a key stored, a connection has been answered the unknown
\* command error and waits for its next command.
C13_Witness ==
    \E c \in Conns :
        /\ sent[c] # None
        /\ sent[c][1].frame = Error(<<"ERR unknown command '", "foo", "'">>)
        /\ handler[c].pc = "select"
        /\ "k1" \in DOMAIN entities

\* C16: the live handler tasks never exceed MAX_CONNECTIONS; every permit is
\* in the semaphore, with the listener (acquired before accept) or with a live
\* handler, so none is leaked whatever the handlers returned; with
\* MAX_CONNECTIONS handlers live the listener is not at accept.
C16_ConnectionLimit ==
    /\ Cardinality(Live) <= MAX_CONNECTIONS
    /\ permits >= 0
    /\ permits + ListenerHolds + Cardinality(Live) = MAX_CONNECTIONS
    /\ Cardinality(Live) = MAX_CONNECTIONS => ListenerHolds = 0

\* C16 witness: MAX_CONNECTIONS handlers are live and the listener, still
\* running, waits for a permit.
C16_Witness ==
    /\ Cardinality(Live) = MAX_CONNECTIONS
    /\ permits = 0
    /\ listener.pc = "acquire"
    /\ serverPc = "select"

\* The sleeps of one call of accept, in seconds.
BackoffSleeps == <<1, 2, 4, 8, 16, 32, 64>>

\* C17: within one call of accept the sleeps are 1, 2, 4, ..., 64 seconds in
\* that order, a failure is returned as an error only after the 64-second
\* sleep, a success at any attempt hands the socket to a handler, and accept
\* never sleeps longer than 64 seconds.
C17_AcceptBackoff ==
    [][/\ Len(listener'.slept) <= Len(BackoffSleeps)
       /\ \A i \in 1..Len(listener'.slept) :
              listener'.slept[i] = BackoffSleeps[i]
       /\ (listener.pc = "accept" /\ listener'.pc = "failed")
              => listener.slept = BackoffSleeps
       /\ (listener.pc = "accept" /\ listener'.pc = "sleep")
              => Len(listener.slept) < Len(BackoffSleeps)
       /\ (listener.pc = "accept" /\ listener'.pc = "acquire")
              => \E c \in Conns :
                     handler[c].pc = "none" /\ handler'[c].pc = "select"]_vars

\* C17 witness: accept has failed after sleeping 1, 2, 4, ..., 64 seconds.
C17_Witness == listener.pc = "failed" /\ listener.slept = BackoffSleeps

\* C18: when a handler ends with an error, the storage, the pub/sub registry,
\* the purger, the listener loop and every other handler (its position, its
\* subscriptions, what it was sent) are unchanged, its permit is back, and
\* the listener is not kept from accepting.
C18_ErrorIsolation ==
    [][\A c \in Conns :
          (handler[c].pc # "ended" /\ handler'[c].pc = "ended"
              /\ handler'[c].result = "Err")
          => /\ UNCHANGED <<entities, expirations, pub_sub, chanLog, purger,
                            shutdown, listener, serverPc, notified>>
             /\ \A d \in Conns \ {c} :
                    /\ handler'[d] = handler[d]
                    /\ subscriptions'[d] = subscriptions[d]
                    /\ mode'[d] = mode[d]
                    /\ channels'[d] = channels[d]
                    /\ sent'[d] = sent[d]
             /\ permits' = permits + 1
             /\ (serverPc' = "select" /\ listener'.pc = "acquire")
                    => permits' > 0]_vars

\* C18 witness: one handler has ended with an error while the other is
\* subscribed to a channel, and the listener is accepting.
C18_Witness ==
    \E c, d \in Conns :
        /\ handler[c].pc = "ended" /\ handler[c].result = "Err"
        /\ handler[d].pc = "subscribe" /\ Len(subscriptions[d]) > 0
        /\ serverPc = "select" /\ listener.pc = "accept"

\* The requests other than SUBSCRIBE.
NonSubscribeRequests == Requests \ SubscribeRequests

\* server::run is past its drain only when no handler task is left.
DrainBarrier == serverPc \notin {"select", "drain"} => Live = {}

\* C14: server::run gets past shutdown_complete_rx.recv() only when every
\* handler has exited, and a handler that holds a non-subscribe request it
\* read before the shutdown was signalled writes a response before it exits.
C14_DrainBarrier ==
    [][/\ DrainBarrier'
       /\ \A c \in Conns :
              (notified /\ handler[c].pc = "apply"
                  /\ handler[c].req \in NonSubscribeRequests
                  /\ handler'[c] # handler[c])
              => /\ sent'[c] # None
                 /\ sent'[c][1].late
                 /\ sent'[c] # sent[c] \/ handler'[c].pc = "select"]_vars

\* C15: once the shutdown is signalled every handler returns and server::run
\* completes, and a handler that has observed the shutdown takes no further
\* step.
C15_ShutdownLiveness ==
    /\ notified ~> (Live = {} /\ serverPc = "returned")
    /\ [][\A c \in Conns :
             handler[c].is_shutdown => handler'[c] = handler[c]]_vars

\* C19: check on a strict prefix of one complete valid frame (the empty
\* prefix and the tag byte alone included) returns Incomplete, and check on
\* the complete frame returns Ok with the cursor at its end.
C19_IncrementalDecode ==
    (input \in ValidInputs /\ checked # None)
    => IF Len(buffer) < Len(input.bytes)
       THEN checked[1].res = "Incomplete"
       ELSE checked[1].res = "Ok" /\ checked[1].pos = Len(input.bytes)

\* C19 witness: check has answered Incomplete on an array frame cut inside
\* the trailing CR LF of its bulk child.
C19_Witness ==
    /\ input.bytes = Encode(Array(<<Null, Bulk(<<"a">>)>>))
    /\ Len(buffer) = Len(input.bytes) - 1
    /\ checked = Some(CodecIncomplete)

\* C20: once the buffer holds a byte that is no tag where a frame starts, at
\* the top level or as a child of an array, check and parse both answer
\* Invalid.
C20_BadTagInvalid ==
    (input # NoInput /\ input.bad > 0 /\ Len(buffer) >= input.bad)
    => /\ checked # None => checked[1].res = "Invalid"
       /\ parsed # None => parsed[1].res = "Invalid"

\* The pairs the expiration index holds for key k.
PairsOf(exps, k) == {p \in exps : p[2] = k}

\* C24: after a SET on key k the expiration index holds, for k, the pair of
\* the new entry's deadline and nothing else (no pair at all after a SET
\* without expiry), whatever SETs and DELs came before.
C24_SetLeavesOnePair ==
    [][\A k \in Keys, v \in Values, e \in Durations :
          Set(k, v, e)
          => PairsOf(expirations', k) =
                 IF e = None THEN {} ELSE {<<ExpiresAt(e)[1], k>>}]_vars

\* C21: invariant I3: a purger pass made with the shutdown flag set removes
\* no entry and no index pair, expired entries or not; with the flag set no
\* step of the purger changes the entries map or the expiration index.
C21_I3 ==
    [][(shutdown /\ purger' # purger)
          => UNCHANGED <<entities, expirations>>]_vars

\* C21 witness: the purger has made a pass under the flag (it waits without
\* a deadline, and nobody has notified it since) and a pair whose deadline
\* has passed is still in the index, its entry still in the map.
C21_Witness ==
    /\ shutdown
    /\ purger = [pc |-> "wait", when |-> None]
    /\ ~background_task
    /\ callers.set = 0
    /\ \E p \in expirations :
           /\ p[1] <= now
           /\ p[2] \in DOMAIN entities
           /\ entities[p[2]].expires_at = Some(p[1])

\* C22: once shutdown_purge_task has set the flag, the purger task leaves
\* its loop, wherever it was and whatever notifications SETs issue.
C22_PurgerTerminates == shutdown ~> purger.pc = "done"

\* C22 witness: the purger has left its loop under the flag while a SET has
\* its notify_one still to call and a pair is left in the index.
C22_Witness ==
    /\ purger.pc = "done"
    /\ shutdown
    /\ callers.set > 0
    /\ expirations # {}

\* The earliest deadline of a non-empty index.
MinDeadline(exps) == CHOOSE t \in {p[1] : p \in exps} : \A p \in exps : t <= p[1]

\* The entry of key k was inserted or replaced in this step: a SET.
EntryWritten(k) ==
    /\ k \in DOMAIN entities'
    /\ k \notin DOMAIN entities \/ entities'[k] # entities[k]

\* The deadline of an entry is earlier than every deadline of the index.
InstallsEarliest(entry) ==
    /\ entry.expires_at # None
    /\ \A p \in expirations : entry.expires_at[1] < p[1]

\* A permit is stored in the Notify, or a caller that has released the lock
\* has its notify_one still to call.
NotificationPending ==
    background_task \/ callers.set > 0 \/ callers.shutdown

\* The purger is blocked with a sleep target at or before the earliest
\* deadline of the index, or a notification is pending.
NeverSleepsPast ==
    (purger.pc = "wait" /\ expirations # {})
    => \/ purger.when # None /\ purger.when[1] <= MinDeadline(expirations)
       \/ NotificationPending

\* C23: a SET notifies the purger exactly when the deadline it installs is
\* earlier than the minimum of the index as it was under the lock before the
\* SET modified it (or the index was empty); in every interleaving the
\* blocked purger has a sleep target at or before the earliest deadline or a
\* notification pending.
C23_PurgerWakeUp ==
    [][/\ \A k \in Keys :
              EntryWritten(k)
              => IF InstallsEarliest(entities'[k])
                 THEN callers' = [callers EXCEPT !.set = @ + 1]
                 ELSE callers' = callers
       /\ callers'.set > callers.set => \E k \in Keys : EntryWritten(k)
       /\ NeverSleepsPast']_vars

\* C23 witness: the purger sleeps until a deadline and a SET has installed an
\* earlier one: the permit of its notify_one is stored.
C23_Witness ==
    /\ purger.pc = "wait"
    /\ purger.when # None
    /\ expirations # {}
    /\ MinDeadline(expirations) < purger.when[1]
    /\ background_task
    /\ callers = NoCallers
    /\ ~shutdown

\* C25: check answers Ok only when the buffer begins with one complete frame
\* of the grammar (a bulk payload followed by CR LF, a $- header that is the
\* null frame), and then the cursor is one byte past the end of that frame.
C25_CheckOkIsFrame ==
    (checked # None /\ checked[1].res = "Ok")
    => FrameEnd(buffer, 0) = checked[1].pos

\* C26: on a buffer on which check answers Ok, parse does not answer
\* Incomplete, and when it answers a value it has consumed one frame and left
\* the cursor where check left it.
C26_CheckParseAgree ==
    (checked # None /\ checked[1].res = "Ok" /\ parsed # None)
    => /\ parsed[1].res # "Incomplete"
       /\ parsed[1].res = "Ok"
              => /\ parsed[1].pos = checked[1].pos
                 /\ parsed[1].pos = FrameEnd(buffer, 0)


\* C27: the pub/sub registry only grows: no step removes a channel from
\* pub_sub, whatever happens to its receivers.  A SUBSCRIBE that arrives when
\* every subscriber of a registered channel has left subscribes to the sender
\* that is still there (registry and stored values untouched, the receiver
\* starts at the sender's current position), and every value a connection is
\* delivered was published after that connection joined.
C27_RegistryOnlyGrows ==
    [][/\ pub_sub \subseteq pub_sub'
       /\ \A c \in Conns :
             (rx[c] = None /\ rx'[c] # None) =>
                 LET r == rx'[c][1] IN
                 (r.chan \in pub_sub /\ rx_cnt[r.chan] = 0) =>
                     /\ pub_sub' = pub_sub
                     /\ chanLog' = chanLog
                     /\ rx_cnt'[r.chan] = 1
                     /\ r.next = Len(chanLog[r.chan])
       /\ \A c \in Conns, ch \in Channels :
             Len(seen'[c][ch]) > Len(seen[c][ch]) =>
                 /\ joined'[c][ch] # None
                 /\ seen'[c][ch][Len(seen'[c][ch])] > joined'[c][ch][1]]_vars

\* C27 witness: a channel whose sender had stored a value lost every receiver,
\* a connection then subscribed to it, and the only message it was sent is one
\* published after it joined.
C27_Witness ==
    \E c \in Conns, ch \in Channels :
        /\ rx_cnt[ch] = 1
        /\ HasKey(subscriptions[c], ch)
        /\ \A d \in Conns \ {c} : mode[d] = "command"
        /\ joined[c][ch] = Some(1)
        /\ seen[c][ch] = <<2>>
        /\ out[c] = <<make_subscribe_frame(ch, 1),
                      make_message_frame(ch, Integer(2))>>

\* C28: subscribe mode is absorbing.  A connection in subscribe mode stays in
\* it at every step except the return of its handler (the peer closed, a read
\* or a write failed, the shutdown was signalled), with which the connection
\* ends; in particular an UNSUBSCRIBE that removes the last subscription
\* leaves the connection in subscribe mode, with an empty StreamMap.
C28_SubscribeAbsorbing ==
    [][\A c \in Conns :
          mode[c] = "subscribe" =>
              /\ mode'[c] = "subscribe" \/ Disconnect(c)
              /\ (subscriptions[c] # <<>> /\ subscriptions'[c] = <<>>
                     /\ Len(out'[c]) > Len(out[c]))
                  => mode'[c] = "subscribe"]_vars

\* C28 witness: a connection subscribed, unsubscribed from its only channel,
\* and, still in subscribe mode with no subscription, answered a PING the way
\* Subscribe::apply answers it.
C28_Witness ==
    \E c \in Conns :
        /\ mode[c] = "subscribe"
        /\ subscriptions[c] = <<>>
        /\ out[c] = <<make_subscribe_frame("news", 1),
                      make_unsubscribe_frame("news", 0),
                      UnknownFrame("ping")>>

\* C29: in subscribe mode a well-formed GET, SET, DEL, PUBLISH or PING is
\* answered with one Error frame that starts "ERR unknown command" and does
\* nothing else: the entries map, the expiration index, the registry, the
\* stored values and receiver counts of the channels and the connection's
\* subscriptions are unchanged, and the connection is back at the select! of
\* Subscribe::apply.
C29_OtherCommandsRefused ==
    [][\A c \in Conns, frame \in OtherRequests :
          ReadOther(c, frame) =>
              /\ Len(out'[c]) = Len(out[c]) + 1
              /\ SubSeq(out'[c], 1, Len(out[c])) = out[c]
              /\ out'[c][Len(out'[c])].tag = "Error"
              /\ out'[c][Len(out'[c])].text[1] = "ERR unknown command '"
              /\ out'[c][Len(out'[c])].text[2] \in OtherNames
              /\ UNCHANGED <<entities, expirations, pub_sub, chanLog, rx_cnt,
                             subscriptions, reply>>
              /\ AtSelect(c)']_vars

\* C29 witness: a subscriber of "news" sent SET k1 and PUBLISH news: it was
\* answered two Error frames, k1 has never been set and nothing was published
\* to the channel it listens to.
C29_Witness ==
    \E c \in Conns :
        /\ out[c] = <<make_subscribe_frame("news", 1),
                      UnknownFrame("set"), UnknownFrame("pub")>>
        /\ HasKey(subscriptions[c], "news")
        /\ DOMAIN entities = {}
        /\ chanLog["news"] = <<>>

\* The ticks of one unit of the option: a second for EX, a millisecond for PX.
UnitTicks(unit) == IF unit = "EX" THEN MillisPerSec ELSE 1

\* C30: whatever i64 n a SET is given as its EX or PX argument, Db::set
\* does not panic, the entry it stores lives n units when n >= 0, and when
\* n < 0 it lives no longer than the entry of EX 0 / PX 0.
C30_LifetimeAsGiven ==
    lastSet.unit # "none" =>
        /\ ~lastSet.panic
        /\ lastSet.lifetime # None
        /\ lastSet.n >= 0 =>
               lastSet.lifetime[1] = lastSet.n * UnitTicks(lastSet.unit)
        /\ lastSet.n < 0 => lastSet.lifetime[1] <= 0
====
